---- MODULE Spec2Model ----
(***************************************************************************)
(* A model of ndumplib's catalog (src/ndumplib/src/catalog.rs): the SQLite *)
(* store with its four tables, the differential importer                   *)
(* Catalog::import_datafile_games with Game::load / update / insert /      *)
(* delete, the ROM-name codec, and the per-console update that calls the   *)
(* importer and then writes the datafiles row.                             *)
(*                                                                         *)
(* Text is modelled as a sequence of one-character strings, so that the    *)
(* codec's replace / starts_with / ends_with / slicing are computed as the *)
(* code computes them.  Names that never pass through a text operation     *)
(* (datafile names, versions) are plain strings.                           *)
(***************************************************************************)
EXTENDS Integers, Sequences, FiniteSets, Bags, TLC

(***************************************************************************)
(* Bounds of the model.                                                    *)
(***************************************************************************)
\* longest parsed datafile (number of <game> elements) the harness imports
MaxGames == 2
\* largest gid SQLite may hand out before the harness stops importing
MaxGid == 3
\* largest revision a stored game may have when an import starts
MaxRev == 2
\* last instant of the clock
MaxTime == 9

\* Catalog::init sets min_update_delay to TimeDelta::days(2); the clock
\* counts days.
MinUpdateDelay == 2

\* Cuesheets::init sets cue_update_delay to TimeDelta::days(7).
CueUpdateDelay == 7

(***************************************************************************)
(* Text.                                                                   *)
(***************************************************************************)
StartsWith(s, p) == Len(s) >= Len(p) /\ SubSeq(s, 1, Len(p)) = p

EndsWith(s, p) == Len(s) >= Len(p) /\ SubSeq(s, Len(s) - Len(p) + 1, Len(s)) = p

\* str::replace: every non-overlapping match of `from`, left to right; an
\* empty pattern matches at every character boundary.
RECURSIVE Replace(_, _, _)
Replace(s, from, to) ==
    IF from = <<>>
    THEN IF s = <<>> THEN to ELSE to \o <<Head(s)>> \o Replace(Tail(s), from, to)
    ELSE IF s = <<>> THEN <<>>
    ELSE IF StartsWith(s, from)
         THEN to \o Replace(SubSeq(s, Len(from) + 1, Len(s)), from, to)
         ELSE <<Head(s)>> \o Replace(Tail(s), from, to)

ExtCue == <<".", "c", "u", "e">>
ExtIso == <<".", "i", "s", "o">>
ExtBin == <<".", "b", "i", "n">>
TrackOpen == <<" ", "(", "T", "r", "a", "c", "k", " ">>
TrackClose == <<")", ".", "b", "i", "n">>

decompress_rom_name(rom_name, game_name) ==
    IF rom_name = <<"$", "c">> THEN game_name \o ExtCue
    ELSE IF rom_name = <<"$", "i">> THEN game_name \o ExtIso
    ELSE IF rom_name = <<"$", "b">> THEN game_name \o ExtBin
    ELSE IF StartsWith(rom_name, <<"$", "T">>)
         THEN game_name \o TrackOpen \o SubSeq(rom_name, 3, Len(rom_name)) \o TrackClose
    ELSE Replace(rom_name, <<"#">>, game_name)

compress_rom_name(rom_name, game_name) ==
    LET first_step == Replace(rom_name, game_name, <<"#">>)
    IN  IF StartsWith(first_step, <<"#">> \o TrackOpen) /\ EndsWith(first_step, TrackClose)
        THEN <<"$", "T">> \o SubSeq(first_step, 10, Len(first_step) - 5)
        ELSE IF first_step = <<"#">> \o ExtCue THEN <<"$", "c">>
        ELSE IF first_step = <<"#">> \o ExtIso THEN <<"$", "i">>
        ELSE IF first_step = <<"#">> \o ExtBin THEN <<"$", "b">>
        ELSE first_step

(***************************************************************************)
(* Cue text: cuesheets::neutralize and cuesheets::get_track_filenames.     *)
(***************************************************************************)
\* The characters str::trim removes that occur in the cue texts below.
Whitespace == {" ", "\t", "\n", "\r"}

\* str::find(c): the position of the first c, 0 for None.
Find(s, c) ==
    LET at == {i \in DOMAIN s : s[i] = c}
    IN  IF at = {} THEN 0 ELSE CHOOSE i \in at : \A j \in at : i <= j

\* str::trim
Trim(s) ==
    LET at == {i \in DOMAIN s : s[i] \notin Whitespace}
    IN  IF at = {} THEN <<>>
        ELSE SubSeq(s, CHOOSE i \in at : \A j \in at : i <= j,
                       CHOOSE i \in at : \A j \in at : i >= j)

\* str::split(c): the pieces between the occurrences of c; one empty piece
\* for the empty text.
RECURSIVE SplitOn(_, _)
SplitOn(s, c) ==
    IF Find(s, c) = 0 THEN <<s>>
    ELSE <<SubSeq(s, 1, Find(s, c) - 1)>> \o SplitOn(SubSeq(s, Find(s, c) + 1, Len(s)), c)

\* [&str]::join(sep)
RECURSIVE Join(_, _)
Join(lines, sep) ==
    IF lines = <<>> THEN <<>>
    ELSE IF Len(lines) = 1 THEN lines[1]
    ELSE lines[1] \o sep \o Join(Tail(lines), sep)

\* SUPPORTED_COMMANDS
SupportedCommands ==
    {<<"F", "I", "L", "E">>, <<"T", "R", "A", "C", "K">>, <<"P", "R", "E", "G", "A", "P">>, <<"I", "N", "D", "E", "X">>, <<"P", "O", "S", "T", "G", "A", "P">>}

\* Path::file_stem of a path given by its file name: None for no name and
\* for "..", the whole name when it has no '.' after its first character,
\* else the name up to its last '.'.
file_stem(name) ==
    LET dots == {i \in DOMAIN name : name[i] = "." /\ i > 1}
    IN  IF name = <<>> \/ name = <<".", ".">> THEN {}
        ELSE IF dots = {} THEN {name}
        ELSE {SubSeq(name, 1, (CHOOSE i \in dots : \A j \in dots : i >= j) - 1)}

\* The filter closure of neutralize panics on a line that, trimmed, holds no
\* space: v.find(' ').unwrap().
LinePanics(v) == Find(Trim(v), " ") = 0

\* The filter closure of neutralize on a line it does not panic on: the text
\* before the first space of the trimmed line is a supported command.
IsSupportedLine(v) == SubSeq(Trim(v), 1, Find(Trim(v), " ") - 1) \in SupportedCommands

\* cuesheets::neutralize: the whole text trimmed and split at '\n'; the lines
\* that pass the filter, as they are (the closure trims a copy), joined by
\* '\n'; the file stem replaced by '$'.  A panic is an outcome.
neutralize(content, name) ==
    LET lines == SplitOn(Trim(content), "\n")
        kept == SelectSeq(lines, IsSupportedLine)
    IN  IF file_stem(name) = {} \/ \E i \in DOMAIN lines : LinePanics(lines[i])
        THEN [panic |-> TRUE, text |-> <<>>]
        ELSE [panic |-> FALSE,
              text |-> Replace(Join(kept, <<"\n">>), CHOOSE st \in file_stem(name) : TRUE,
                              <<"$">>)]

\* The place of the title in a line of a cue template.
Hole == <<"<title>">>

\* The FILE line of a cue template.
FileLine ==
    <<"F", "I", "L", "E", " ", "\"">> \o Hole \o <<".", "b", "i", "n", "\"", " ", "B", "I", "N", "A", "R", "Y">>

\* The cue of a template for a title.
Fill(template, title) == Replace(template, Hole, title)

(***************************************************************************)
(* Category and Status, and their integer columns.                         *)
(***************************************************************************)
Category == {"Games", "Demos", "Coverdiscs", "Applications", "Preproduction",
             "Educational", "BonusDiscs", "Multimedia", "Addons", "Audio",
             "Video", "Unknown"}

CategoryToSql(c) ==
    CASE c = "Games" -> 0
      [] c = "Demos" -> 1
      [] c = "Coverdiscs" -> 2
      [] c = "Applications" -> 3
      [] c = "Preproduction" -> 4
      [] c = "Educational" -> 5
      [] c = "BonusDiscs" -> 6
      [] c = "Multimedia" -> 7
      [] c = "Addons" -> 8
      [] c = "Audio" -> 9
      [] c = "Video" -> 10
      [] c = "Unknown" -> 127

\* A faulty variant of CategoryFromSql: any other integer reads as Unknown.
CategoryFromSqlLenient(n) ==
    CASE n = 0 -> "Games"
      [] n = 1 -> "Demos"
      [] n = 2 -> "Coverdiscs"
      [] n = 3 -> "Applications"
      [] n = 4 -> "Preproduction"
      [] n = 5 -> "Educational"
      [] n = 6 -> "BonusDiscs"
      [] n = 7 -> "Multimedia"
      [] n = 8 -> "Addons"
      [] n = 9 -> "Audio"
      [] n = 10 -> "Video"
      [] OTHER -> "Unknown"

\* FromSql fails (OutOfRange) on any other integer; Game::load unwraps it.
CategoryFromSql(n) ==
    CASE n = 0 -> "Games"
      [] n = 1 -> "Demos"
      [] n = 2 -> "Coverdiscs"
      [] n = 3 -> "Applications"
      [] n = 4 -> "Preproduction"
      [] n = 5 -> "Educational"
      [] n = 6 -> "BonusDiscs"
      [] n = 7 -> "Multimedia"
      [] n = 8 -> "Addons"
      [] n = 9 -> "Audio"
      [] n = 10 -> "Video"
      [] n = 127 -> "Unknown"
      [] OTHER -> "OutOfRange"

\* An Option<T> is modelled as a set with at most one element: {} is None (and
\* the SQL NULL of a nullable column), {v} is Some(v).
Unwrap(opt) == CHOOSE v \in opt : TRUE

Status == {"Verified", "BadDump", "Unknown"}

StatusToSql(s) ==
    CASE s = "Verified" -> 0
      [] s = "BadDump" -> 1
      [] s = "Unknown" -> 127

StatusFromSql(n) ==
    CASE n = 0 -> "Verified"
      [] n = 1 -> "BadDump"
      [] n = 127 -> "Unknown"
      [] OTHER -> "OutOfRange"

(***************************************************************************)
(* The store.  A connection state is a record of the four tables:          *)
(*   datafiles        set of rows, dfid the primary key                    *)
(*   games            set of rows, gid the primary key                     *)
(*   game_categories  bag of rows (the table has no key)                   *)
(*   roms             bag of rows (the table has no key)                   *)
(***************************************************************************)
EmptyStore ==
    [datafiles |-> {}, games |-> {}, game_categories |-> EmptyBag, roms |-> EmptyBag]

SetMax(S) == CHOOSE x \in S : \A y \in S : y <= x

\* An INTEGER PRIMARY KEY that the INSERT leaves out: the largest one in the
\* table plus one, 1 in an empty table.
NextRowId(ids) == IF ids = {} THEN 1 ELSE SetMax(ids) + 1

\* The bag holding row[x] once for every x of the domain of row.
RowsOf(row) ==
    [v \in {row[x] : x \in DOMAIN row} |-> Cardinality({x \in DOMAIN row : row[x] = v})]

\* DELETE FROM <table> WHERE gid = ?
DeleteByGid(bag, gid) ==
    [r \in {x \in DOMAIN bag : x.gid # gid} |-> bag[r]]

\* SELECT ... FROM <table> WHERE gid = ? (the distinct row values; callers
\* put what they read into a HashSet)
SelectByGid(bag, gid) == {r \in DOMAIN bag : r.gid = gid}

(***************************************************************************)
(* ROM and Game.                                                           *)
(***************************************************************************)
\* impl Hash for ROM: size, crc32, md5 and sha1 are fed to the hasher.  The
\* 64-bit SipHash of RandomState is taken to be free of collisions on the
\* tuples of one comparison, so the hash is the tuple itself.
\* (RomHashNoSha1 is a faulty variant: sha1 is left out of the hash.)
RomHashNoSha1(rom) == <<rom.size, rom.crc32, rom.md5>>

RomHash(rom) == <<rom.size, rom.crc32, rom.md5, rom.sha1>>

\* The row insert_roms writes for a ROM of game `game`.
RomRow(game, rom) ==
    [gid |-> Unwrap(game.gid),
     name |-> compress_rom_name(rom.name, game.name),
     status |-> {StatusToSql(s) : s \in rom.status},
     size |-> rom.size, crc32 |-> rom.crc32, md5 |-> rom.md5,
     sha1 |-> rom.sha1, sha256 |-> rom.sha256]

\* The ROM Game::load builds from a row.
RomOfRow(row, game_name) ==
    [name |-> decompress_rom_name(row.name, game_name),
     status |-> {StatusFromSql(n) : n \in row.status},
     size |-> row.size, crc32 |-> row.crc32, md5 |-> row.md5,
     sha1 |-> row.sha1, sha256 |-> row.sha256]

CategoryRow(game, category) ==
    [gid |-> Unwrap(game.gid), category |-> CategoryToSql(category)]

\* Game::insert_categories
insert_categories(c, game) ==
    [c EXCEPT !.game_categories =
        @ (+) RowsOf([cat \in game.categories |-> CategoryRow(game, cat)])]

\* Game::insert_roms
insert_roms(c, game) ==
    [c EXCEPT !.roms = @ (+) RowsOf([rom \in game.roms |-> RomRow(game, rom)])]

\* A faulty variant of GameDelete: the games row and the ROM rows go, the
\* category rows stay.
GameDeleteKeepsCategories(c, game) ==
    [c EXCEPT !.games = {g \in @ : g.gid # Unwrap(game.gid)},
              !.roms = DeleteByGid(@, Unwrap(game.gid))]

\* A faulty variant of GameDelete: the games row goes, its ROM rows stay.
GameDeleteKeepsRoms(c, game) ==
    [c EXCEPT !.games = {g \in @ : g.gid # Unwrap(game.gid)},
              !.game_categories = DeleteByGid(@, Unwrap(game.gid))]

\* Game::delete
GameDelete(c, game) ==
    [c EXCEPT !.games = {g \in @ : g.gid # Unwrap(game.gid)},
              !.game_categories = DeleteByGid(@, Unwrap(game.gid)),
              !.roms = DeleteByGid(@, Unwrap(game.gid))]

\* Game::insert: the games row (revision is the column default 0), then the
\* category and ROM rows.  Returns the connection state.
GameInsert(c, game) ==
    LET gid == NextRowId({g.gid : g \in c.games})
        self == [game EXCEPT !.gid = {gid}, !.revision = 0]
        c1 == [c EXCEPT !.games =
                  @ \cup {[gid |-> gid, dfid |-> game.dfid, name |-> game.name,
                           revision |-> 0]}]
    IN  insert_roms(insert_categories(c1, self), self)

\* A faulty variant of GameLoad: the categories and ROMs are read and the
\* game is left marked as not loaded.
GameLoadForgets(c, game) ==
    [game EXCEPT
        !.categories = @ \cup {CategoryFromSql(r.category) :
                                 r \in SelectByGid(c.game_categories, Unwrap(game.gid))},
        !.roms = @ \cup {RomOfRow(r, game.name) :
                           r \in SelectByGid(c.roms, Unwrap(game.gid))}]

\* Game::load
GameLoad(c, game) ==
    IF game.loaded THEN game
    ELSE [game EXCEPT
            !.categories = @ \cup {CategoryFromSql(r.category) :
                                     r \in SelectByGid(c.game_categories, Unwrap(game.gid))},
            !.roms = @ \cup {RomOfRow(r, game.name) :
                               r \in SelectByGid(c.roms, Unwrap(game.gid))},
            !.loaded = TRUE]

\* The 'roms_equal block of Game::update: equal lengths and equal sorted
\* lists of hashes, that is, equal bags of hashes.
roms_equal(self_roms, game_roms) ==
    /\ Cardinality(self_roms) = Cardinality(game_roms)
    /\ RowsOf([rom \in self_roms |-> RomHash(rom)])
         = RowsOf([rom \in game_roms |-> RomHash(rom)])

\* A faulty variant of BumpRevision: the revision goes down by one.
BumpRevisionDown(games, gid) ==
    {IF g.gid = gid THEN [g EXCEPT !.revision = @ - 1] ELSE g : g \in games}

\* UPDATE games SET revision = revision + 1 WHERE gid = ?
BumpRevision(games, gid) ==
    {IF g.gid = gid THEN [g EXCEPT !.revision = @ + 1] ELSE g : g \in games}

\* Game::update(connection, game) on the stored game `self`.  Returns the
\* connection state, the bool of Ok(changed), and err: "" for Ok, the error,
\* or "Panic" when self is not loaded ("Attempted to update unloaded game").
GameUpdate(c, self, game) ==
    LET gid == Unwrap(self.gid)
        cats_differ == self.categories # game.categories
        cats_deleted == cats_differ /\ self.categories # {}
        c1 == IF cats_deleted
              THEN [c EXCEPT !.game_categories = DeleteByGid(@, gid)] ELSE c
        self1 == IF cats_differ THEN [self EXCEPT !.categories = game.categories]
                 ELSE self
        c2 == IF cats_differ /\ self1.categories # {}
              THEN insert_categories(c1, self1) ELSE c1
        roms_differ == self.roms # game.roms
        bump == roms_differ /\ ~roms_equal(self.roms, game.roms)
        row_count == Cardinality({g \in c2.games : g.gid = gid})
        c3 == IF bump THEN [c2 EXCEPT !.games = BumpRevision(@, gid)] ELSE c2
        c4 == IF roms_differ /\ self.roms # {}
              THEN [c3 EXCEPT !.roms = DeleteByGid(@, gid)] ELSE c3
        self2 == IF roms_differ THEN [self1 EXCEPT !.roms = game.roms] ELSE self1
        c5 == IF roms_differ /\ self2.roms # {} THEN insert_roms(c4, self2) ELSE c4
    IN  IF ~self.loaded THEN [c |-> c, changed |-> FALSE, err |-> "Panic"]
        ELSE IF self.gid = {} THEN [c |-> c, changed |-> FALSE, err |-> "MissingGid"]
        ELSE IF bump /\ row_count = 0
             THEN [c |-> c2, changed |-> FALSE, err |-> "MissingGame"]
        ELSE [c |-> c5, changed |-> cats_deleted \/ roms_differ, err |-> ""]

\* Game::add_rom: self.roms.insert(rom).  ROM derives PartialEq and Eq, so the
\* HashSet takes two ROMs for one only when every field agrees, the name and
\* the status included.
add_rom(game, rom) == [game EXCEPT !.roms = @ \cup {rom}]

\* Game::parse_game and the add_rom calls of XMLDatafile::parse_games: the
\* Game a <game> element parses to (dfid -1, no gid, loaded).
ParsedGame(name, categories, roms) ==
    [dfid |-> -1, gid |-> {}, name |-> name, categories |-> categories,
     roms |-> roms, revision |-> 0, loaded |-> TRUE]

\* A faulty variant of get_all_games_unloaded: no stored game is found.
get_all_games_none(c, dfid) == <<>>

\* A faulty variant of get_all_games_unloaded: the games of every datafile
\* are read (no WHERE dfid = ?).
get_all_games_any_datafile(c, dfid) ==
    LET RowOf(n) == CHOOSE g \in c.games :
                        /\ g.name = n
                        /\ \A h \in c.games : h.name = n => h.gid <= g.gid
    IN  [n \in {g.name : g \in c.games} |->
            [dfid |-> dfid, gid |-> {RowOf(n).gid}, name |-> n, categories |-> {},
             roms |-> {}, revision |-> RowOf(n).revision, loaded |-> FALSE]]

\* Datafile::get_all_games_unloaded: a map from name to the unloaded Game;
\* of two rows with one name the later row (the larger gid) stays in the map.
get_all_games_unloaded(c, dfid) ==
    LET rows == {g \in c.games : g.dfid = dfid}
        RowOf(n) == CHOOSE g \in rows :
                        /\ g.name = n
                        /\ \A h \in rows : h.name = n => h.gid <= g.gid
    IN  [n \in {g.name : g \in rows} |->
            [dfid |-> dfid, gid |-> {RowOf(n).gid}, name |-> n, categories |-> {},
             roms |-> {}, revision |-> RowOf(n).revision, loaded |-> FALSE]]

\* A faulty variant of datafile_get: the row is inserted with last_updated 1.
RECURSIVE datafile_get_stamped(_, _, _, _)
datafile_get_stamped(c, name, author, calls) ==
    LET found == {d \in c.datafiles : d.name = name}
        row == [dfid |-> NextRowId({d.dfid : d \in c.datafiles}), name |-> name,
                author |-> author, version |-> "", last_updated |-> 1]
    IN  IF found # {}
        THEN [c |-> c, datafile |-> CHOOSE d \in found : TRUE, calls |-> calls + 1]
        ELSE datafile_get_stamped([c EXCEPT !.datafiles = @ \cup {row}], name, author,
                                  calls + 1)

\* Datafile::get, entered after `calls` calls of itself: SELECT the row of
\* `name`; when there is none, INSERT it (version "", last_updated 0) and
\* call Datafile::get again.  Returns the connection state, the Datafile and
\* the number of calls made.
RECURSIVE datafile_get(_, _, _, _)
datafile_get(c, name, author, calls) ==
    LET found == {d \in c.datafiles : d.name = name}
        row == [dfid |-> NextRowId({d.dfid : d \in c.datafiles}), name |-> name,
                author |-> author, version |-> "", last_updated |-> 0]
    IN  IF found # {}
        THEN [c |-> c, datafile |-> CHOOSE d \in found : TRUE, calls |-> calls + 1]
        ELSE datafile_get([c EXCEPT !.datafiles = @ \cup {row}], name, author, calls + 1)

\* Datafile::get: the datafiles row of `name`, inserted first (version "",
\* last_updated 0) when there is none.  Returns the connection state and the
\* Datafile.
DatafileGet(c, name, author) ==
    LET got == datafile_get(c, name, author, 0)
    IN  [c |-> got.c, datafile |-> got.datafile]

\* A faulty variant of DatafileUpdate: only the version is written.
DatafileUpdateVersionOnly(c, datafile) ==
    [c EXCEPT !.datafiles =
        {IF d.dfid = datafile.dfid THEN [d EXCEPT !.version = datafile.version]
         ELSE d : d \in @}]

\* Datafile::update: UPDATE datafiles SET version, last_updated WHERE dfid.
DatafileUpdate(c, datafile) ==
    [c EXCEPT !.datafiles =
        {IF d.dfid = datafile.dfid
         THEN [d EXCEPT !.version = datafile.version,
                        !.last_updated = datafile.last_updated]
         ELSE d : d \in @}]

(***************************************************************************)
(* State.                                                                  *)
(*                                                                         *)
(* db    the committed store: what a reader on a connection of its own     *)
(*       (write-ahead log) is given.                                       *)
(* conn  the store as the catalog's own connection sees it: db outside a   *)
(*       transaction, db plus the transaction's writes inside one.         *)
(* pc, caller       where the running call stands and who called the       *)
(*                  importer                                               *)
(* datafile, xml    the arguments of import_datafile_games                 *)
(* idx              how many parsed games the for loop has consumed        *)
(* stored_games, processed_games, unchanged_entries, changed_entries,      *)
(* new_entries, removed_games      the importer's locals                   *)
(* result           how the last call ended                                *)
(* header_version   the version of the header the console update parsed    *)
(* now              the clock (Utc::now), in days                          *)
(*                                                                         *)
(* History, written but never read by the program:                         *)
(* pre      db when the running (or last) import started                   *)
(* prev     the successful import before the running (or last) one         *)
(* seen     what a reader read since the running (or last) call started    *)
(* revHigh  per (dfid, game name) the highest revision ever committed      *)
(* games_version  per dfid the header version of the datafile whose games  *)
(*                were committed last                                      *)
(***************************************************************************)
VARIABLES db, conn, pc, caller, datafile, xml, idx, stored_games,
          processed_games, unchanged_entries, changed_entries, new_entries,
          removed_games, result, header_version, now,
          pre, prev, seen, revHigh, games_version,
          cuedb, cueconn, cuefiles, cuesheet, links, queue, start, trace,
          input, output

locals == <<stored_games, processed_games, unchanged_entries, changed_entries,
            new_entries, removed_games>>

vars == <<db, conn, pc, caller, datafile, xml, idx, stored_games,
          processed_games, unchanged_entries, changed_entries, new_entries,
          removed_games, result, header_version, now,
          pre, prev, seen, revHigh, games_version, cuedb, cueconn, cuefiles, cuesheet, links, queue, start, trace,
          input, output>>

NoDatafile == [dfid |-> 0, name |-> "", author |-> "", version |-> "", last_updated |-> 0]

NoImport == [dfid |-> 0, xml |-> <<>>, pre |-> EmptyStore, dfid0 |-> 0, xml0 |-> <<>>]

\* The three tables an import writes.
GameTables(c) == [games |-> c.games, game_categories |-> c.game_categories, roms |-> c.roms]

\* What a reader read: the three tables as it was given them, and, for the
\* record, as the importer's connection saw them at that moment.
Seen(given, c) == [read |-> TRUE, tables |-> GameTables(given), pending |-> GameTables(c)]

NotRead == [read |-> FALSE, tables |-> GameTables(EmptyStore), pending |-> GameTables(EmptyStore)]

\* The cuesheet database after Cuesheets::init on a new file.
EmptyCueStore == [cuesheets |-> {}, cues |-> {}]

NoCuesheet == [console |-> "", last_updated |-> 0]

\* No No-Intro index was fetched yet.
NoLinks == <<>>

\* What a console update found when it was called: both stores, the clock,
\* the name, version and last_updated of the record it is about, and the
\* entry of the No-Intro index it was given for it (none for the others).
NoStart == [db |-> EmptyStore, cuedb |-> EmptyCueStore, now |-> 0, name |-> "",
            version |-> "", last_updated |-> 0,
            link |-> [listed |-> FALSE, link |-> {}, last_updated |-> 0]]

\* No function was called, and none returned.
NoCall == [fn |-> "none"]

\* Catalog::init and Cuesheets::init on new files: every table is empty.  The
\* clock starts no earlier than either update delay after the epoch.
Constructed ==
    /\ db = EmptyStore
    /\ conn = EmptyStore
    /\ pc = "idle"
    /\ caller = "none"
    /\ datafile = NoDatafile
    /\ xml = <<>>
    /\ idx = 0
    /\ stored_games = <<>>
    /\ processed_games = {}
    /\ unchanged_entries = 0
    /\ changed_entries = 0
    /\ new_entries = 0
    /\ removed_games = 0
    /\ result = "none"
    /\ header_version = ""
    /\ now = CueUpdateDelay
    /\ pre = EmptyStore
    /\ prev = NoImport
    /\ seen = NotRead
    /\ revHigh = {}
    /\ games_version = {}
    /\ cuedb = EmptyCueStore
    /\ cueconn = EmptyCueStore
    /\ cuefiles = <<>>
    /\ cuesheet = NoCuesheet
    /\ links = NoLinks
    /\ queue = <<>>
    /\ start = NoStart
    /\ trace = <<>>

\* The state after construction, before any call.
Init ==
    /\ Constructed
    /\ input = NoCall
    /\ output = NoCall

ImportPcs == {"begin", "loop", "delete"}

\* The bounds: an import starts only while the gids it may hand out and the
\* revisions it may reach stay within MaxGid and MaxRev.
WithinBounds(c, dfid, parsed) ==
    /\ \A g \in c.games : g.revision < MaxRev
    /\ LET names == {g.name : g \in {h \in c.games : h.dfid = dfid}}
           fresh == {parsed[i].name : i \in 1..Len(parsed)} \ names
       IN  NextRowId({g.gid : g \in c.games}) + Cardinality(fresh) - 1 <= MaxGid

(***************************************************************************)
(* The Logiqx datafile: XMLDatafile::parse_games.  An element is a record  *)
(* of its attributes, each there or not; an attribute value is a sequence  *)
(* of characters.                                                          *)
(***************************************************************************)
DecDigits == <<"0", "1", "2", "3", "4", "5", "6", "7", "8", "9">>

HexLetters == <<"a", "b", "c", "d", "e", "f">>

HexCapitals == <<"A", "B", "C", "D", "E", "F">>

\* The position of ch in the sequence of characters, 0 when it is not there.
IndexIn(chars, ch) ==
    IF \E i \in DOMAIN chars : chars[i] = ch THEN CHOOSE i \in DOMAIN chars : chars[i] = ch
    ELSE 0

\* The values of the hex digits of either case.
HexValues ==
    [ch \in {DecDigits[i] : i \in 1..10} \cup {HexLetters[i] : i \in 1..6}
            \cup {HexCapitals[i] : i \in 1..6} |->
        IF IndexIn(DecDigits, ch) > 0 THEN IndexIn(DecDigits, ch) - 1
        ELSE IF IndexIn(HexLetters, ch) > 0 THEN IndexIn(HexLetters, ch) + 9
        ELSE IndexIn(HexCapitals, ch) + 9]

\* The value of a hex digit, -1 for any other character.
HexVal(ch) == IF ch \in DOMAIN HexValues THEN HexValues[ch] ELSE -1

\* A faulty variant of decode_to_slice: a value shorter than 2n digits is
\* taken as it is, the bytes it has no digits for left 0.
decode_to_slice_padded(value, n) ==
    IF Len(value) > 2 * n \/ Len(value) % 2 = 1
       \/ \E i \in DOMAIN value : HexVal(value[i]) < 0 THEN {}
    ELSE {[i \in 1..n |-> IF 2 * i <= Len(value)
                          THEN 16 * HexVal(value[2 * i - 1]) + HexVal(value[2 * i])
                          ELSE 0]}

\* hex::decode_to_slice into [u8; n]: the n bytes of 2n hex digits; an error
\* (no value) for any other length and for a character that is no hex digit.
decode_to_slice(value, n) ==
    IF Len(value) # 2 * n \/ \E i \in DOMAIN value : HexVal(value[i]) < 0 THEN {}
    ELSE {[i \in 1..n |-> 16 * HexVal(value[2 * i - 1]) + HexVal(value[2 * i])]}

\* A faulty variant of i32_from_be_bytes: the first byte is taken as the
\* least significant.
i32_from_le_bytes(b) ==
    (IF b[4] >= 128 THEN b[4] - 256 ELSE b[4]) * 16777216 + b[3] * 65536 + b[2] * 256 + b[1]

\* i32::from_be_bytes: the two's complement value of four bytes, the first
\* the most significant.
i32_from_be_bytes(b) ==
    (IF b[1] >= 128 THEN b[1] - 256 ELSE b[1]) * 16777216 + b[2] * 65536 + b[3] * 256 + b[4]

\* XMLHexAttribute<i32>::attr_hex
attr_hex_i32(attribute) ==
    {i32_from_be_bytes(b) : b \in UNION {decode_to_slice(v, 4) : v \in attribute}}

\* XMLHexAttribute<[u8; N]>::attr_hex
attr_hex(attribute, n) == UNION {decode_to_slice(v, n) : v \in attribute}

RECURSIVE DecValue(_)
DecValue(digits) ==
    IF digits = <<>> THEN 0
    ELSE 10 * DecValue(SubSeq(digits, 1, Len(digits) - 1))
         + IndexIn(DecDigits, digits[Len(digits)]) - 1

\* usize::from_str_radix(value, 10): digits after at most one '+'; an error
\* for no digit and for any other character.  (The sizes of the harness are
\* far below 2^64, where it overflows.)
from_str_radix(value) ==
    LET digits == IF value # <<>> /\ value[1] = "+" THEN Tail(value) ELSE value
    IN  IF digits = <<>> \/ \E i \in DOMAIN digits : IndexIn(DecDigits, digits[i]) = 0 THEN {}
        ELSE {DecValue(digits)}

\* XMLPlainAttribute<usize>::attr
attr_usize(attribute) == UNION {from_str_radix(v) : v \in attribute}

\* impl From<&str> for Category
CategoryFromStr(value) ==
    CASE value = "Bonus Discs" -> "BonusDiscs"
      [] value = "Add-Ons" -> "Addons"
      [] value \in Category \ {"BonusDiscs", "Addons", "Unknown"} -> value
      [] OTHER -> "Unknown"

\* impl From<&str> for Status
StatusFromStr(value) ==
    CASE value = "verified" -> "Verified"
      [] value = "baddump" -> "BadDump"
      [] OTHER -> "Unknown"

\* Game::parse_game_rom: the ROM of a <rom> element, none when it fails.
parse_game_rom(node) ==
    LET size == attr_usize(node.size)
        crc32 == attr_hex_i32(node.crc)
        md5 == attr_hex(node.md5, 16)
        sha1 == attr_hex(node.sha1, 20)
        sha256 == attr_hex(node.sha256, 32)
    IN  IF \/ node.name = {} \/ size = {} \/ crc32 = {} \/ md5 = {} \/ sha1 = {}
           \/ (node.sha256 # {} /\ sha256 = {})
        THEN {}
        ELSE {[name |-> Unwrap(node.name),
               status |-> {StatusFromStr(v) : v \in node.status},
               size |-> Unwrap(size), crc32 |-> Unwrap(crc32), md5 |-> Unwrap(md5),
               sha1 |-> Unwrap(sha1), sha256 |-> sha256]}

\* Game::parse_game, and the loop of parse_games over the <rom> elements of
\* the <game> element: the Game, none when any of them fails.
parse_game(node) ==
    LET roms == [i \in DOMAIN node.roms |-> parse_game_rom(node.roms[i])]
    IN  IF node.name = {} \/ \E i \in DOMAIN roms : roms[i] = {} THEN {}
        ELSE {ParsedGame(Unwrap(node.name), {CategoryFromStr(v) : v \in node.categories},
                         {Unwrap(roms[i]) : i \in DOMAIN roms})}

\* XMLDatafile::parse_games: the Games of the <game> elements in their
\* order, none when any element fails.
parse_games(document) ==
    LET games == [i \in DOMAIN document |-> parse_game(document[i])]
    IN  IF \E i \in DOMAIN games : games[i] = {} THEN {}
        ELSE {[i \in DOMAIN document |-> Unwrap(games[i])]}

\* The import was given a document, and parse_games fails on it.
ParseFails == input.fn = "import_datafile_games" /\ parse_games(input.document) = {}

\* A caller enters import_datafile_games(datafile, xml) with the store in
\* state c.  `history` says whether the specification keeps prev.
EnterImport(c, df, parsed, history) ==
    /\ datafile' = df
    /\ xml' = parsed
    /\ idx' = 0
    /\ pc' = "begin"
    /\ pre' = c
    /\ prev' = IF history /\ result = "Ok"
               THEN [dfid |-> datafile.dfid, xml |-> xml, pre |-> pre,
                     dfid0 |-> prev.dfid, xml0 |-> prev.xml]
               ELSE prev
    /\ stored_games' = <<>>
    /\ processed_games' = {}
    /\ unchanged_entries' = 0
    /\ changed_entries' = 0
    /\ new_entries' = 0
    /\ removed_games' = 0

\* A faulty variant of Fail: the writes made so far stay (no rollback).
FailKeepsWrites(error) ==
    /\ conn' = conn
    /\ db' = conn
    /\ pc' = "idle"
    /\ result' = error
    /\ UNCHANGED <<caller, datafile, xml, header_version, now, pre, prev, seen,
                   revHigh, games_version, input, output, cuedb, cueconn, cuefiles, cuesheet, links, queue, start, trace>>

\* How the importer leaves: the Transaction is dropped without a commit, which
\* rolls it back, and the error goes up through every caller's `?`.
Fail(error) ==
    /\ conn' = db
    /\ pc' = "idle"
    /\ result' = error
    /\ UNCHANGED <<db, caller, datafile, xml, header_version, now, pre, prev, seen,
                   revHigh, games_version, input, output, cuedb, cueconn, cuefiles, cuesheet, links, queue, start, trace>>

\* import_datafile_games up to the for loop: the transaction is opened, the
\* stored games of the datafile are read unloaded, the datafile is parsed;
\* when parse_games fails, its error is returned.
ImportBegin ==
    /\ pc = "begin"
    /\ IF ParseFails
       THEN Fail("ParseError") /\ UNCHANGED <<idx, locals>>
       ELSE /\ stored_games' = get_all_games_unloaded(conn, datafile.dfid)
            /\ processed_games' = {}
            /\ unchanged_entries' = 0
            /\ changed_entries' = 0
            /\ new_entries' = 0
            /\ removed_games' = IF xml = <<>> THEN Cardinality(DOMAIN stored_games') ELSE 0
            /\ pc' = IF xml = <<>> THEN "delete" ELSE "loop"
            /\ UNCHANGED <<db, conn, caller, datafile, xml, idx, result, header_version, now,
                           pre, prev, seen, revHigh, games_version, input, output, cuedb, cueconn, cuefiles,
                           cuesheet, links, queue, start, trace>>

\* A faulty variant of IsDuplicate: a name counts as repeated only when it is
\* the name of the game parsed just before.
IsDuplicateAdjacent(name, processed, parsed, i) ==
    i > 0 /\ parsed[i].name = name

\* processed_games.contains(&game_element.name)
IsDuplicate(name, processed, parsed, i) == name \in processed

\* One iteration of the for loop over the parsed games.
ImportGame ==
    /\ pc = "loop"
    /\ LET game_element == xml[idx + 1]
           name == game_element.name
           last_one == idx + 1 = Len(xml)
       IN  IF IsDuplicate(name, processed_games, xml, idx)
           THEN Fail("DuplicateGame") /\ UNCHANGED <<idx, locals>>
           ELSE IF name \in DOMAIN stored_games
           THEN LET game == GameLoad(conn, stored_games[name])
                    u == GameUpdate(conn, game, game_element)
                    rest == [n \in DOMAIN stored_games \ {name} |-> stored_games[n]]
                IN  IF u.err # ""
                    THEN Fail(u.err) /\ UNCHANGED <<idx, locals>>
                    ELSE /\ conn' = u.c
                         /\ changed_entries' = changed_entries + (IF u.changed THEN 1 ELSE 0)
                         /\ unchanged_entries' = unchanged_entries + (IF u.changed THEN 0 ELSE 1)
                         /\ stored_games' = rest
                         /\ processed_games' = processed_games \cup {name}
                         /\ idx' = idx + 1
                         /\ removed_games' = IF last_one THEN Cardinality(DOMAIN rest) ELSE 0
                         /\ pc' = IF last_one THEN "delete" ELSE "loop"
                         /\ UNCHANGED <<db, caller, datafile, xml, new_entries, result,
                                        header_version, now, pre, prev, seen, revHigh,
                                        games_version, input, output, cuedb, cueconn, cuefiles, cuesheet, links, queue, start, trace>>
           ELSE /\ conn' = GameInsert(conn, [game_element EXCEPT !.dfid = datafile.dfid])
                /\ new_entries' = new_entries + 1
                /\ processed_games' = processed_games \cup {name}
                /\ idx' = idx + 1
                /\ removed_games' = IF last_one THEN Cardinality(DOMAIN stored_games) ELSE 0
                /\ pc' = IF last_one THEN "delete" ELSE "loop"
                /\ UNCHANGED <<db, caller, datafile, xml, stored_games, unchanged_entries,
                               changed_entries, result, header_version, now, pre, prev,
                               seen, revHigh, games_version, input, output, cuedb, cueconn, cuefiles, cuesheet, links, queue, start, trace>>

\* One iteration of the loop that deletes the games left in stored_games (a
\* HashMap: any order).
ImportDelete ==
    /\ pc = "delete"
    /\ \E name \in DOMAIN stored_games :
          /\ conn' = GameDelete(conn, stored_games[name])
          /\ stored_games' = [n \in DOMAIN stored_games \ {name} |-> stored_games[n]]
    /\ UNCHANGED <<db, pc, caller, datafile, xml, idx, processed_games,
                   unchanged_entries, changed_entries, new_entries, removed_games,
                   result, header_version, now, pre, prev, seen, revHigh, games_version, input, output, cuedb, cueconn, cuefiles, cuesheet, links, queue, start, trace>>

\* The highest revision committed so far, per (dfid, name), after `games`.
RevHighAfter(high, games) ==
    LET keys == {<<t[1], t[2]>> : t \in high} \cup {<<g.dfid, g.name>> : g \in games}
        revs(k) == {t[3] : t \in {u \in high : <<u[1], u[2]>> = k}}
                   \cup {g.revision : g \in {h \in games : <<h.dfid, h.name>> = k}}
    IN  {<<k[1], k[2], SetMax(revs(k))>> : k \in keys}

\* transaction.commit(), and the return to the caller: the harness, or the
\* console update that goes on to write the datafiles row.
ImportCommit ==
    /\ pc = "delete"
    /\ DOMAIN stored_games = {}
    /\ db' = conn
    /\ revHigh' = RevHighAfter(revHigh, conn.games)
    /\ games_version' = {t \in games_version : t[1] # datafile.dfid}
                        \cup {<<datafile.dfid, datafile.version>>}
    /\ IF caller = "harness"
       THEN pc' = "idle" /\ result' = "Ok"
       ELSE pc' = "imported" /\ result' = result
    /\ UNCHANGED <<conn, caller, datafile, xml, idx, locals, header_version, now, pre,
                   prev, seen, cuedb, cueconn, cuefiles, cuesheet, links, queue, start, trace, input,
                   output>>

\* A statement of the importer (or the commit) fails in the storage layer.
StorageFailure ==
    /\ pc \in ImportPcs
    /\ Fail("StorageError")
    /\ UNCHANGED <<idx, locals>>

\* A faulty variant of Read: the reader is given the transaction's writes.
ReadUncommitted ==
    /\ pc \in ImportPcs \/ (pc = "idle" /\ result # "none")
    /\ seen # Seen(conn, conn)
    /\ seen' = Seen(conn, conn)
    /\ UNCHANGED <<db, conn, pc, caller, datafile, xml, idx, locals, result,
                   header_version, now, pre, prev, revHigh, games_version, input, output, cuedb, cueconn, cuefiles, cuesheet, links, queue, start, trace>>

\* A reader on a connection of its own reads the three tables: it is given
\* the committed store.
Read ==
    /\ pc \in ImportPcs \/ (pc = "idle" /\ result # "none")
    /\ seen # Seen(db, conn)
    /\ seen' = Seen(db, conn)
    /\ UNCHANGED <<db, conn, pc, caller, datafile, xml, idx, locals, result,
                   header_version, now, pre, prev, revHigh, games_version, input, output, cuedb, cueconn, cuefiles, cuesheet, links, queue, start, trace>>

\* The harness: Datafile::get for the datafile's name (outside any
\* transaction, so committed at once), then import_datafile_games.
ImportDatafile(name, author, parsed, history) ==
    /\ pc = "idle"
    /\ LET got == DatafileGet(conn, name, author)
       IN  /\ WithinBounds(got.c, got.datafile.dfid, parsed)
           /\ conn' = got.c
           /\ db' = got.c
           /\ EnterImport(got.c, got.datafile, parsed, history)
    /\ caller' = "harness"
    /\ result' = "running"
    /\ seen' = NotRead
    /\ UNCHANGED <<header_version, now, revHigh, games_version, input, output, cuedb, cueconn, cuefiles, cuesheet, links, queue, start, trace>>

\* The harness with a document: Datafile::get, then import_datafile_games
\* of the XMLDatafile of the document.
ImportDocument(name, author, document, history) ==
    /\ pc = "idle"
    /\ LET got == DatafileGet(conn, name, author)
           parsed == IF parse_games(document) = {} THEN <<>>
                     ELSE Unwrap(parse_games(document))
       IN  /\ WithinBounds(got.c, got.datafile.dfid, parsed)
           /\ conn' = got.c
           /\ db' = got.c
           /\ EnterImport(got.c, got.datafile, parsed, history)
    /\ input' = [fn |-> "import_datafile_games", document |-> document]
    /\ caller' = "harness"
    /\ result' = "running"
    /\ seen' = NotRead
    /\ UNCHANGED <<header_version, now, revHigh, games_version, output, cuedb, cueconn, cuefiles, cuesheet,
                   links, queue, start, trace>>

(***************************************************************************)
(* The per-console update: Catalog::update_redump_console and              *)
(* Catalog::update_nointro_console.                                        *)
(***************************************************************************)
\* A faulty variant of IsFresh: a datafile counts as fresh one day short of
\* the delay.
IsFreshOneDayShort(df, delay) == now < df.last_updated + delay - 1

\* Utc::now() < datafile.last_updated + min_update_delay
IsFresh(df, delay) == now < df.last_updated + delay

\* A console update is called for the record `name`, whose row holds
\* `version` and `last_updated`: what it found is kept, and the call is
\* written to the trace, with the download that follows when `downloads`.
\* The trace is that of the running (or last) outermost call.
Called(name, version, last_updated, link, downloads) ==
    /\ start' = [db |-> db, cuedb |-> cuedb, now |-> now, name |-> name,
                 version |-> version, last_updated |-> last_updated, link |-> link]
    /\ trace' = (IF queue = <<>> THEN <<>> ELSE trace)
                 \o << <<"console", name>> >>
                 \o (IF downloads THEN << <<"download", name>> >> ELSE <<>>)

\* A console update returns without entering the importer.
Return(outcome) ==
    /\ pc' = "idle"
    /\ result' = outcome
    /\ UNCHANGED <<xml, idx, locals, header_version, pre, prev, seen, revHigh,
                   games_version, input, output, now, cuedb, cueconn, cuefiles, cuesheet, links, queue>>

\* update_redump_console up to the download: Datafile::get, and the return
\* when the datafile is fresh.
RedumpStart(name) ==
    /\ pc = "idle"
    /\ LET got == DatafileGet(conn, name, "Redump")
       IN  /\ conn' = got.c
           /\ db' = got.c
           /\ datafile' = got.datafile
           /\ caller' = "redump"
           /\ Called(name, got.datafile.version, got.datafile.last_updated, NoStart.link,
                     ~IsFresh(got.datafile, MinUpdateDelay))
           /\ IF IsFresh(got.datafile, MinUpdateDelay)
              THEN Return("Ok")
              ELSE /\ pc' = "fetch"
                   /\ result' = "running"
                   /\ UNCHANGED <<xml, idx, locals, header_version, pre, prev, seen,
                                  revHigh, games_version, input, output, now, cuedb, cueconn, cuefiles, cuesheet, links, queue>>

\* redump::download_datafile, XMLDatafile::open and parse_header succeed with
\* a datafile of header version `version` and games `parsed`.  An equal
\* version: the datafiles row is touched and the update returns.  Otherwise
\* the importer is entered.
RedumpFetch(version, parsed) ==
    /\ pc = "fetch"
    /\ caller = "redump"
    /\ header_version' = version
    /\ IF datafile.version = version
       THEN /\ datafile' = [datafile EXCEPT !.last_updated = now]
            /\ conn' = DatafileUpdate(conn, datafile')
            /\ db' = conn'
            /\ pc' = "idle"
            /\ result' = "Ok"
            /\ UNCHANGED <<xml, idx, locals, pre, prev, trace>>
       ELSE /\ WithinBounds(conn, datafile.dfid, parsed)
            /\ EnterImport(conn, [datafile EXCEPT !.version = version], parsed, FALSE)
            /\ trace' = Append(trace, <<"import", datafile.name>>)
            /\ UNCHANGED <<db, conn, result>>
    /\ UNCHANGED <<caller, now, seen, revHigh, games_version, input, output, cuedb, cueconn, cuefiles, cuesheet, links, queue, start>>

\* The link of the No-Intro index for a datafile: absent, or (link,
\* last_updated) where the link may be missing.
NoLink == [listed |-> FALSE, link |-> {}, last_updated |-> 0]

\* A faulty variant of IsUpToDate: an index entry as old as the stored
\* datafile does not count.
IsUpToDateStrict(link, df) == link.last_updated < df.last_updated

\* link.last_updated <= datafile.last_updated
IsUpToDate(link, df) == link.last_updated <= df.last_updated

\* update_nointro_console up to the download: Datafile::get, the return when
\* the datafile is fresh, is not in the index or has no link, and the touch
\* when the index lists nothing newer.
NoIntroStart(name, link) ==
    /\ pc = "idle"
    /\ LET got == DatafileGet(conn, name, "No-Intro")
           touched == [got.datafile EXCEPT !.last_updated = now]
           downloads == /\ ~IsFresh(got.datafile, MinUpdateDelay)
                        /\ link.listed
                        /\ ~IsUpToDate(link, got.datafile)
                        /\ link.link # {}
       IN  /\ caller' = "nointro"
           /\ Called(name, got.datafile.version, got.datafile.last_updated, link,
                     downloads)
           /\ IF IsFresh(got.datafile, MinUpdateDelay) \/ ~link.listed
              THEN /\ conn' = got.c /\ db' = got.c /\ datafile' = got.datafile
                   /\ Return("Ok")
              ELSE IF IsUpToDate(link, got.datafile)
              THEN /\ conn' = DatafileUpdate(got.c, touched)
                   /\ db' = conn'
                   /\ datafile' = touched
                   /\ Return("Ok")
              ELSE IF link.link = {}
              THEN /\ conn' = got.c /\ db' = got.c /\ datafile' = got.datafile
                   /\ Return("Ok")
              ELSE /\ conn' = got.c /\ db' = got.c /\ datafile' = got.datafile
                   /\ pc' = "fetch"
                   /\ result' = "running"
                   /\ UNCHANGED <<xml, idx, locals, header_version, pre, prev, seen,
                                  revHigh, games_version, input, output, now, cuedb, cueconn, cuefiles, cuesheet, links, queue>>

\* nointro::download_datafile, XMLDatafile::open and parse_header succeed: the
\* importer is entered whatever the version.
NoIntroFetch(version, parsed) ==
    /\ pc = "fetch"
    /\ caller = "nointro"
    /\ header_version' = version
    /\ WithinBounds(conn, datafile.dfid, parsed)
    /\ EnterImport(conn, [datafile EXCEPT !.version = version], parsed, FALSE)
    /\ trace' = Append(trace, <<"import", datafile.name>>)
    /\ UNCHANGED <<db, conn, result, caller, now, seen, revHigh, games_version, input, output,
                   cuedb, cueconn, cuefiles, cuesheet, links, queue, start>>

\* A faulty variant of FetchFailure: the failed update stamps the datafiles
\* row.
FetchFailureTouches ==
    /\ pc = "fetch"
    /\ pc' = "idle"
    /\ result' = "FetchError"
    /\ datafile' = [datafile EXCEPT !.last_updated = now]
    /\ conn' = DatafileUpdate(conn, datafile')
    /\ db' = conn'
    /\ UNCHANGED <<caller, xml, idx, locals, header_version, now,
                   pre, prev, seen, revHigh, games_version, input, output, cuedb, cueconn, cuefiles, cuesheet, links, queue, start, trace>>

\* The download, the archive or the header fails: the update returns the
\* error.
FetchFailure ==
    /\ pc = "fetch"
    /\ pc' = "idle"
    /\ result' = "FetchError"
    /\ UNCHANGED <<db, conn, caller, datafile, xml, idx, locals, header_version, now,
                   pre, prev, seen, revHigh, games_version, input, output, cuedb, cueconn, cuefiles, cuesheet, links, queue, start, trace>>

\* After import_datafile_games returned Ok: datafile.last_updated = now and
\* Datafile::update on the plain connection.
Touch ==
    /\ pc = "imported"
    /\ datafile' = [datafile EXCEPT !.last_updated = now]
    /\ conn' = DatafileUpdate(conn, datafile')
    /\ db' = conn'
    /\ pc' = "idle"
    /\ result' = "Ok"
    /\ UNCHANGED <<caller, xml, idx, locals, header_version, now, pre, prev, seen,
                   revHigh, games_version, input, output, cuedb, cueconn, cuefiles, cuesheet, links, queue, start, trace>>

\* Datafile::update fails after the import was committed.
TouchFailure ==
    /\ pc = "imported"
    /\ pc' = "idle"
    /\ result' = "StorageError"
    /\ UNCHANGED <<db, conn, caller, datafile, xml, idx, locals, header_version, now,
                   pre, prev, seen, revHigh, games_version, input, output, cuedb, cueconn, cuefiles, cuesheet, links, queue, start, trace>>

\* Time passes between calls and during a download.
Tick ==
    /\ pc \in {"idle", "fetch", "cuefetch"}
    /\ now < MaxTime
    /\ now' = now + 1
    /\ UNCHANGED <<db, conn, pc, caller, datafile, xml, idx, locals, result,
                   header_version, pre, prev, seen, revHigh, games_version, input, output, cuedb, cueconn, cuefiles, cuesheet, links, queue, start, trace>>

(***************************************************************************)
(* The cuesheet database: Cuesheets::update_redump_cuesheets.              *)
(***************************************************************************)
\* Cuesheet::get: the cuesheets row of the console, inserted first with
\* last_updated 0 when there is none.
CuesheetGet(c, console) ==
    LET found == {r \in c.cuesheets : r.console = console}
        row == [console |-> console, last_updated |-> 0]
    IN  IF found # {} THEN [c |-> c, cuesheet |-> CHOOSE r \in found : TRUE]
        ELSE [c |-> [c EXCEPT !.cuesheets = @ \cup {row}], cuesheet |-> row]

\* Cuesheet::update: UPDATE cuesheets SET last_updated WHERE console.
CuesheetUpdate(c, sheet) ==
    [c EXCEPT !.cuesheets =
        {IF r.console = sheet.console
         THEN [r EXCEPT !.last_updated = sheet.last_updated] ELSE r : r \in @}]

\* The SHA-1 of a text, kept as a term over the text: two texts have one hash
\* exactly when they are equal.
Sha1(content) == <<"sha1", content>>

\* Cuesheets::import_cues, committed: INSERT OR IGNORE of one row per file,
\* keyed by the SHA-1 of the file's content; the stored content is the text
\* neutralize returns for the content and the file name.
import_cues(c, files) ==
    LET known == {r.sha1 : r \in c.cues}
        hashes == {Sha1(f.content) : f \in files} \ known
        FileOf(h) == CHOOSE f \in files : Sha1(f.content) = h
    IN  [c EXCEPT !.cues = @ \cup
            {[sha1 |-> h, content |-> neutralize(FileOf(h).content, FileOf(h).name).text] :
                h \in hashes}]

\* A faulty variant of insert_or_ignore: INSERT OR REPLACE.
insert_or_replace(c, row) ==
    [c EXCEPT !.cues = {r \in @ : r.sha1 # row.sha1} \cup {row}]

\* INSERT OR IGNORE INTO cues (sha1, content) VALUES (?, ?): sha1 is the
\* primary key, and a row whose sha1 is stored already is left as it is.
insert_or_ignore(c, row) ==
    IF \E r \in c.cues : r.sha1 = row.sha1 THEN c
    ELSE [c EXCEPT !.cues = @ \cup {row}]

\* The orders in which read_dir may yield the entries of a directory.
Orders(dir) ==
    {order \in [1..Cardinality(dir) -> dir] :
        \A i, j \in DOMAIN order : order[i] = order[j] => i = j}

\* The directory of the import_cues call before this one, when it returned
\* Ok; nothing otherwise.
LastCues ==
    IF result = "Ok" /\ trace # <<>>
    THEN IF trace[1][1] = "import_cues" THEN {trace[1][2]} ELSE {}
    ELSE {}

\* Cuesheets::import_cues is called on the directory `dir`: the transaction
\* is opened, the statement prepared, and read_dir yields the entries in some
\* order.  The table before the call is kept, and the trace starts with the
\* call, the directory and the last success.
ImportCues(dir) ==
    /\ pc = "idle"
    /\ cuefiles' \in Orders(dir)
    /\ pc' = "cueimport"
    /\ caller' = "harness"
    /\ result' = "running"
    /\ start' = [start EXCEPT !.cuedb = cuedb]
    /\ trace' = << <<"import_cues", dir, LastCues>> >>
    /\ UNCHANGED <<db, conn, datafile, xml, idx, locals, header_version, now, pre, prev,
                   seen, revHigh, games_version, input, output, cuedb, cueconn, cuesheet,
                   links, queue>>

\* How import_cues leaves without a commit: the Transaction is dropped, which
\* rolls it back.
CuesLeave(outcome) ==
    /\ cueconn' = cuedb
    /\ cuefiles' = <<>>
    /\ pc' = "idle"
    /\ result' = outcome
    /\ UNCHANGED <<db, conn, caller, datafile, xml, idx, locals, header_version, now,
                   pre, prev, seen, revHigh, games_version, input, output, cuedb, cuesheet,
                   links, queue, start, trace>>

\* One turn of the loop of import_cues: an entry that is not a file is
\* skipped; neutralize may panic, which unwinds through the transaction;
\* otherwise the row of the file is inserted unless its sha1 is stored.
CueInsert ==
    /\ pc = "cueimport"
    /\ cuefiles # <<>>
    /\ LET file == Head(cuefiles)
           neutral == neutralize(file.content, file.name)
       IN  IF file.is_file /\ neutral.panic
           THEN CuesLeave("panic")
           ELSE /\ cueconn' = IF file.is_file
                              THEN insert_or_ignore(cueconn,
                                     [sha1 |-> Sha1(file.content), content |-> neutral.text])
                              ELSE cueconn
                /\ cuefiles' = Tail(cuefiles)
                /\ UNCHANGED <<db, conn, pc, caller, datafile, xml, idx, locals, result,
                               header_version, now, pre, prev, seen, revHigh, games_version,
                               input, output, cuedb, cuesheet, links, queue, start, trace>>

\* After the loop of import_cues: the commit.
CuesCommit ==
    /\ pc = "cueimport"
    /\ cuefiles = <<>>
    /\ cuedb' = cueconn
    /\ pc' = "idle"
    /\ result' = "Ok"
    /\ UNCHANGED <<db, conn, caller, datafile, xml, idx, locals, header_version, now,
                   pre, prev, seen, revHigh, games_version, input, output, cueconn, cuefiles,
                   cuesheet, links, queue, start, trace>>

\* read_dir, an entry, read_to_string, the statement or the commit fails.
CuesRollback ==
    /\ pc = "cueimport"
    /\ CuesLeave("StorageError")

\* update_redump_cuesheets up to the download: Cuesheet::get, and the return
\* when the cuesheets are fresh.
CuesheetsStart(console) ==
    /\ pc = "idle"
    /\ LET got == CuesheetGet(cuedb, console)
           fresh == IsFresh(got.cuesheet, CueUpdateDelay)
       IN  /\ cuedb' = got.c
           /\ cueconn' = got.c
           /\ UNCHANGED cuefiles
           /\ cuesheet' = got.cuesheet
           /\ caller' = "cues"
           /\ Called(console, "", got.cuesheet.last_updated, NoStart.link, ~fresh)
           /\ pc' = IF fresh THEN "idle" ELSE "cuefetch"
           /\ result' = IF fresh THEN "Ok" ELSE "running"
    /\ UNCHANGED <<db, conn, datafile, xml, idx, locals, header_version, now, pre, prev,
                   seen, revHigh, games_version, input, output, links, queue>>

\* redump::download_cuesheets and import_cues succeed with the cue files
\* `files`, none of which makes neutralize panic.
CuesImport(files) ==
    /\ pc = "cuefetch"
    /\ \A f \in files : ~neutralize(f.content, f.name).panic
    /\ cuedb' = import_cues(cuedb, files)
    /\ cueconn' = cuedb'
    /\ UNCHANGED cuefiles
    /\ trace' = Append(trace, <<"import", cuesheet.console>>)
    /\ pc' = "cueimported"
    /\ UNCHANGED <<db, conn, caller, datafile, xml, idx, locals, result, header_version,
                   now, pre, prev, seen, revHigh, games_version, input, output, cuesheet, links, queue,
                   start>>

\* The download fails, or import_cues fails and its transaction is rolled
\* back: the update returns the error.
CuesFailure ==
    /\ pc = "cuefetch"
    /\ pc' = "idle"
    /\ result' = "FetchError"
    /\ UNCHANGED <<db, conn, caller, datafile, xml, idx, locals, header_version, now,
                   pre, prev, seen, revHigh, games_version, input, output, cuedb, cueconn, cuefiles, cuesheet, links, queue,
                   start, trace>>

\* After import_cues returned Ok: cuesheet.last_updated = now and
\* Cuesheet::update.
CuesTouch ==
    /\ pc = "cueimported"
    /\ cuesheet' = [cuesheet EXCEPT !.last_updated = now]
    /\ cuedb' = CuesheetUpdate(cuedb, cuesheet')
    /\ cueconn' = cuedb'
    /\ UNCHANGED cuefiles
    /\ pc' = "idle"
    /\ result' = "Ok"
    /\ UNCHANGED <<db, conn, caller, datafile, xml, idx, locals, header_version, now,
                   pre, prev, seen, revHigh, games_version, input, output, links, queue, start, trace>>

(***************************************************************************)
(* The full update: Catalog::update_all_consoles.                          *)
(***************************************************************************)
\* GameConsole::nointro_datafile_name
nointro_datafile_name(console) ==
    CASE console = "GB" -> "Nintendo - Game Boy"
      [] console = "GBA" -> "Nintendo - Game Boy Advance"
      [] console = "GBC" -> "Nintendo - Game Boy Color"
      [] console = "N64" -> "Nintendo - Nintendo 64"

\* GameConsole::redump_datafile_name: the Redump datafile names of the
\* console table.
redump_datafile_name(console) ==
    CASE console = "Dreamcast" -> "Sega - Dreamcast"
      [] console = "GameCube" -> "Nintendo - GameCube"
      [] console = "PSX" -> "Sony - PlayStation"
      [] console = "PS2" -> "Sony - PlayStation 2"
      [] console = "PS3" -> "Sony - PlayStation 3"
      [] console = "PSP" -> "Sony - PlayStation Portable"
      [] console = "Wii" -> "Nintendo - Wii"
      [] console = "Xbox" -> "Microsoft - Xbox"
      [] console = "Xbox360" -> "Microsoft - Xbox 360"

\* A faulty variant of oldest_nointro_datafile_time: the newest No-Intro
\* datafile decides.
newest_nointro_datafile_time(c) ==
    LET times == {d.last_updated : d \in {x \in c.datafiles : x.author = "No-Intro"}}
    IN  IF times = {} THEN 0 ELSE SetMax(times)

\* Catalog::oldest_nointro_datafile_time: SELECT MIN(last_updated) FROM
\* datafiles WHERE author = 'No-Intro'; the epoch when there is no such row.
oldest_nointro_datafile_time(c) ==
    LET times == {d.last_updated : d \in {x \in c.datafiles : x.author = "No-Intro"}}
    IN  IF times = {} THEN 0 ELSE CHOOSE t \in times : \A u \in times : t <= u

\* The console updates of update_all_consoles when the No-Intro index was
\* loaded, in the order of the calls.
BatchWithNoIntro ==
    << <<"nointro", "GB">>, <<"redump", "Dreamcast">>, <<"redump", "GameCube">>,
       <<"nointro", "GBC">>, <<"redump", "PSX">>, <<"redump", "PS2">>,
       <<"nointro", "GBA">>, <<"redump", "PS3">>, <<"redump", "PSP">>,
       <<"nointro", "N64">>, <<"redump", "Wii">>, <<"redump", "Xbox">>,
       <<"redump", "Xbox360">> >>

\* The console updates of update_all_consoles otherwise.
BatchRedumpOnly ==
    << <<"redump", "Dreamcast">>, <<"redump", "GameCube">>, <<"redump", "PSX">>,
       <<"redump", "PS2">>, <<"redump", "PS3">>, <<"redump", "PSP">>,
       <<"redump", "Wii">>, <<"redump", "Xbox">>, <<"redump", "Xbox360">> >>

\* links.get(datafile_name)
LinkOf(index, name) == IF name \in DOMAIN index THEN index[name] ELSE NoLink

\* The full update before this one, when it returned Ok: the instant at which
\* it was called and whether it loaded the No-Intro index; nothing otherwise.
LastSuccess ==
    IF result = "Ok" /\ trace # <<>>
    THEN IF trace[1][1] = "update_all_consoles"
         THEN {[at |-> trace[1][2],
                index |-> \E i \in DOMAIN trace : trace[i] = <<"index">>]}
         ELSE {}
    ELSE {}

\* update_all_consoles is called: the test on the oldest No-Intro datafile.
\* The calls that remain are queued; the index is loaded first when the
\* test says so.  The trace starts with the call, the clock, the datafiles
\* rows it found and the last success.
AllStart ==
    /\ pc = "idle"
    /\ queue = <<>>
    /\ LET loads == now >= oldest_nointro_datafile_time(conn) + MinUpdateDelay
       IN  /\ queue' = IF loads THEN BatchWithNoIntro ELSE BatchRedumpOnly
           /\ pc' = IF loads THEN "index" ELSE "idle"
           /\ result' = IF loads THEN "running" ELSE "next"
           /\ trace' = << <<"update_all_consoles", now, db.datafiles, LastSuccess>> >>
                        \o (IF loads THEN << <<"index">> >> ELSE <<>>)
    /\ caller' = "all"
    /\ UNCHANGED <<db, conn, datafile, xml, idx, locals, header_version, now, pre, prev,
                   seen, revHigh, games_version, input, output, cuedb, cueconn, cuefiles, cuesheet, links, start>>

\* nointro::load_datafile_links succeeds with the index `index`.
IndexFetch(index) ==
    /\ pc = "index"
    /\ links' = index
    /\ pc' = "idle"
    /\ result' = "next"
    /\ UNCHANGED <<db, conn, caller, datafile, xml, idx, locals, header_version, now,
                   pre, prev, seen, revHigh, games_version, input, output, cuedb, cueconn, cuefiles, cuesheet, queue,
                   start, trace>>

\* nointro::load_datafile_links fails: update_all_consoles returns the error
\* before any console update.
IndexFailure ==
    /\ pc = "index"
    /\ pc' = "idle"
    /\ result' = "FetchError"
    /\ queue' = <<>>
    /\ UNCHANGED <<db, conn, caller, datafile, xml, idx, locals, header_version, now,
                   pre, prev, seen, revHigh, games_version, input, output, cuedb, cueconn, cuefiles, cuesheet, links,
                   start, trace>>

\* The next call of update_all_consoles: the console update at the head of
\* the queue.
Dispatch ==
    /\ queue # <<>>
    /\ result = "next"
    /\ LET call == Head(queue)
       IN  IF call[1] = "redump"
           THEN RedumpStart(redump_datafile_name(call[2]))
           ELSE NoIntroStart(nointro_datafile_name(call[2]),
                             LinkOf(links, nointro_datafile_name(call[2])))

\* A console update returned Ok: update_all_consoles goes on to the next
\* call, or returns Ok after the last one.
Advance ==
    /\ pc = "idle"
    /\ queue # <<>>
    /\ result = "Ok"
    /\ queue' = Tail(queue)
    /\ result' = IF Tail(queue) = <<>> THEN "Ok" ELSE "next"
    /\ UNCHANGED <<db, conn, pc, caller, datafile, xml, idx, locals, header_version,
                   now, pre, prev, seen, revHigh, games_version, input, output, cuedb, cueconn, cuefiles, cuesheet, links,
                   start, trace>>

\* A console update returned an error: the `?` after the call returns it
\* from update_all_consoles, and the calls that remain are not made.
Abort ==
    /\ pc = "idle"
    /\ queue # <<>>
    /\ result \notin {"Ok", "next", "running"}
    /\ queue' = <<>>
    /\ UNCHANGED <<db, conn, pc, caller, datafile, xml, idx, locals, result,
                   header_version, now, pre, prev, seen, revHigh, games_version, input, output, cuedb, cueconn, cuefiles,
                   cuesheet, links, start, trace>>

(***************************************************************************)
(* The datafiles the harness imports.                                      *)
(***************************************************************************)
gA == <<"A">>
gB == <<"B">>
gC == <<"C">>

\* A <rom> element without status and sha256 attributes.
Rom(name, size, crc32, md5, sha1) ==
    [name |-> name, status |-> {}, size |-> size, crc32 |-> crc32, md5 |-> md5,
     sha1 |-> sha1, sha256 |-> {}]

\* Two contents that differ in sha1 alone.
RomOne(name) == Rom(name, 88, 1, "m0", "s0")
RomTwo(name) == Rom(name, 88, 1, "m0", "s1")

Track(game_name, n) == game_name \o TrackOpen \o <<n>> \o TrackClose

\* Sequences over S of length at most n.
SeqsUpTo(S, n) == UNION {[1..k -> S] : k \in 0..n}

\* The names of a parsed datafile's games, and whether no name is repeated.
Names(parsed) == {parsed[i].name : i \in DOMAIN parsed}

DistinctNames(parsed) == Cardinality(Names(parsed)) = Len(parsed)

GamesWide ==
    {ParsedGame(gA, {"Games"}, {RomOne(gA \o ExtCue)}),
     ParsedGame(gA, {"Games"}, {RomTwo(gA \o ExtCue)}),
     ParsedGame(gB, {}, {RomOne(gB \o ExtIso)}),
     ParsedGame(gC, {"Demos", "Unknown"}, {RomOne(Track(gC, "1")), RomTwo(Track(gC, "2"))})}

GamesOther == {ParsedGame(gA, {"Demos"}, {RomTwo(gA \o ExtBin)})}

\* Imports of datafiles of up to MaxGames games of distinct names, over three
\* names, into one datafile.  (Repeated names are imported under SpecDup.)
Next ==
    \/ \E parsed \in {p \in SeqsUpTo(GamesWide, MaxGames) : DistinctNames(p)} :
          ImportDatafile("Sony - PlayStation", "Redump", parsed, FALSE)
    \/ ImportBegin
    \/ ImportGame
    \/ ImportDelete
    \/ ImportCommit
    \/ StorageFailure

Spec == Init /\ [][Next]_vars

\* longest parsed datafile of SpecDup
MaxDupGames == 3

GamesDup ==
    {ParsedGame(gA, {"Games"}, {RomOne(gA \o ExtCue)}),
     ParsedGame(gB, {}, {RomOne(gB \o ExtIso)})}

\* Imports of datafiles of up to MaxDupGames games, over two names, into one
\* datafile, and of a game of an equal name into a second one.
NextDup ==
    \/ \E parsed \in SeqsUpTo(GamesDup, MaxDupGames) :
          ImportDatafile("Sony - PlayStation", "Redump", parsed, FALSE)
    \/ \E parsed \in SeqsUpTo(GamesOther, 1) :
          ImportDatafile("Nintendo - Game Boy", "No-Intro", parsed, FALSE)
    \/ ImportBegin
    \/ ImportGame
    \/ ImportDelete
    \/ ImportCommit
    \/ StorageFailure

SpecDup == Init /\ [][NextDup]_vars

GamesRead ==
    {ParsedGame(gA, {"Games"}, {RomOne(gA \o ExtCue)}),
     ParsedGame(gA, {"Demos"}, {RomTwo(gA \o ExtCue)}),
     ParsedGame(gB, {}, {RomOne(gB \o ExtIso)})}

\* Imports of datafiles of up to MaxGames games, over two names, into one
\* datafile, with a reader alongside.
NextRead ==
    \/ \E parsed \in SeqsUpTo(GamesRead, MaxGames) :
          ImportDatafile("Sony - PlayStation", "Redump", parsed, FALSE)
    \/ ImportBegin
    \/ ImportGame
    \/ ImportDelete
    \/ ImportCommit
    \/ StorageFailure
    \/ Read

SpecRead == Init /\ [][NextRead]_vars

\* The ROM sets of game A in SpecGame: one ROM, its content changed, the ROM
\* renamed, a name that is the compressed form of another, two names that
\* compress to one, two ROMs of one content, no ROM.
RomSetsGame ==
    {{RomOne(gA \o ExtCue)},
     {RomTwo(gA \o ExtCue)},
     {RomOne(<<"x">> \o ExtCue)},
     {RomOne(<<"$", "c">>)},
     {RomOne(gA \o ExtBin), RomOne(<<"#">> \o ExtBin)},
     {RomOne(Track(gA, "1")), RomOne(Track(gA, "2"))},
     {}}

CategorySetsGame == {{}, {"Games"}, {"Demos"}, {"Games", "Unknown"}}

GamesGame ==
    {ParsedGame(gA, {"Games"}, roms) : roms \in RomSetsGame}
    \cup {ParsedGame(gA, cats, {RomOne(gA \o ExtCue)}) : cats \in CategorySetsGame}

\* Imports of datafiles of at most one game, A, with every ROM set and
\* category set above, into one datafile; the import before is remembered.
NextGame ==
    \/ \E parsed \in SeqsUpTo(GamesGame, 1) :
          ImportDatafile("Sony - PlayStation", "Redump", parsed, TRUE)
    \/ ImportBegin
    \/ ImportGame
    \/ ImportDelete
    \/ ImportCommit
    \/ StorageFailure

SpecGame == Init /\ [][NextGame]_vars

Versions == {"", "1", "2"}

GamesUpdate ==
    {ParsedGame(gA, {"Games"}, {RomOne(gA \o ExtCue)}),
     ParsedGame(gA, {"Games"}, {RomTwo(gA \o ExtCue)})}

Links ==
    {NoLink, [listed |-> TRUE, link |-> {}, last_updated |-> MaxTime]}
    \cup {[listed |-> TRUE, link |-> {"url"}, last_updated |-> t] :
            t \in {0, MaxTime - 2, MaxTime}}

\* Imports of datafiles of at most one game, A, of one of two contents, into
\* one datafile, and of a game of the same name into a second one.
NextTwo ==
    \/ \E parsed \in SeqsUpTo(GamesUpdate, 1) :
          ImportDatafile("Sony - PlayStation", "Redump", parsed, FALSE)
    \/ \E parsed \in SeqsUpTo(GamesOther, 1) :
          ImportDatafile("Nintendo - Game Boy", "No-Intro", parsed, FALSE)
    \/ ImportBegin
    \/ ImportGame
    \/ ImportDelete
    \/ ImportCommit
    \/ StorageFailure

SpecTwo == Init /\ [][NextTwo]_vars

\* Updates of one Redump console, with every fetch result above, while time
\* passes.
NextRedump ==
    \/ RedumpStart("Sony - PlayStation")
    \/ \E version \in Versions, parsed \in SeqsUpTo(GamesUpdate, 1) :
          RedumpFetch(version, parsed)
    \/ FetchFailure
    \/ ImportBegin
    \/ ImportGame
    \/ ImportDelete
    \/ ImportCommit
    \/ StorageFailure
    \/ Touch
    \/ TouchFailure
    \/ Tick

SpecRedump == Init /\ [][NextRedump]_vars

\* Updates of one No-Intro console, with every index entry above and every
\* datafile above of one version, while time passes.
NextNoIntro ==
    \/ \E link \in Links : NoIntroStart("Nintendo - Game Boy", link)
    \/ \E parsed \in SeqsUpTo(GamesUpdate, 1) : NoIntroFetch("1", parsed)
    \/ FetchFailure
    \/ ImportBegin
    \/ ImportGame
    \/ ImportDelete
    \/ ImportCommit
    \/ StorageFailure
    \/ Touch
    \/ TouchFailure
    \/ Tick

SpecNoIntro == Init /\ [][NextNoIntro]_vars

GamesFresh == {ParsedGame(gA, {"Games"}, {RomOne(gA \o ExtCue)})}

\* The cue files of the Redump archive: one cue of one track.
CueFiles == {[name |-> gA \o ExtCue, content |-> Fill(FileLine, gA)]}

\* Updates of one Redump console, of one No-Intro console and of the
\* cuesheets of one console, in any order, while time passes.
NextFresh ==
    \/ RedumpStart("Sony - PlayStation")
    \/ \E parsed \in SeqsUpTo(GamesFresh, 1) : RedumpFetch("1", parsed)
    \/ \E link \in Links : NoIntroStart("Nintendo - Game Boy", link)
    \/ \E parsed \in SeqsUpTo(GamesFresh, 1) : NoIntroFetch("1", parsed)
    \/ FetchFailure
    \/ ImportBegin
    \/ ImportGame
    \/ ImportDelete
    \/ ImportCommit
    \/ Touch
    \/ CuesheetsStart("PSX")
    \/ \E files \in SUBSET CueFiles : CuesImport(files)
    \/ CuesFailure
    \/ CuesTouch
    \/ Tick

SpecFresh == Init /\ [][NextFresh]_vars

\* The No-Intro indexes: one that lists only the Game Boy datafile, and one
\* that lists every No-Intro datafile of the catalog, with a link and the
\* last instant.
Indexes ==
    {[n \in {nointro_datafile_name(c) : c \in consoles} |->
         [listed |-> TRUE, link |-> {"url"}, last_updated |-> MaxTime]] :
       consoles \in {{"GB"}, {"GB", "GBA", "GBC", "N64"}}}

\* Full updates, one after the other until one fails, of datafiles without
\* games and of one version; the index and any download may fail; time
\* passes between two full updates.
NextAll ==
    \/ (result \in {"none", "Ok"} /\ AllStart)
    \/ \E index \in Indexes : IndexFetch(index)
    \/ IndexFailure
    \/ Dispatch
    \/ Advance
    \/ Abort
    \/ RedumpFetch("1", <<>>)
    \/ NoIntroFetch("1", <<>>)
    \/ FetchFailure
    \/ ImportBegin
    \/ ImportCommit
    \/ Touch
    \/ (queue = <<>> /\ Tick)

SpecAll == Init /\ [][NextAll]_vars

(***************************************************************************)
(* The ROM name codec, called on its own.                                  *)
(***************************************************************************)
\* longest ROM name given to the codec, in characters
MaxNameLen == 3

NameChars == {"A", "#", "$"}

\* The game names: up to two characters.  The ROM names: every short name,
\* and for every game name the names Redump gives the files of a disc, with
\* a track number that is a digit or the game name itself.
CodecInputs ==
    LET games == SeqsUpTo(NameChars, 2)
        discs(g) == {g \o ExtCue, g \o ExtIso, g \o ExtBin,
                     g \o TrackOpen \o <<"1">> \o TrackClose,
                     g \o TrackOpen \o g \o TrackClose}
    IN  {[fn |-> "codec", rom_name |-> r, game_name |-> g] :
            r \in SeqsUpTo(NameChars, MaxNameLen), g \in games}
        \cup UNION {{[fn |-> "codec", rom_name |-> r, game_name |-> g] : r \in discs(g)} :
                        g \in games}

InitCodec ==
    /\ Constructed
    /\ input \in CodecInputs
    /\ output = NoCall

\* Game::insert_roms stores compress_rom_name(rom.name, game.name), and
\* Game::load reads it back through decompress_rom_name with the same game
\* name.
RoundTrip ==
    /\ input.fn = "codec"
    /\ output = NoCall
    /\ LET compressed == compress_rom_name(input.rom_name, input.game_name)
       IN  output' = [fn |-> "codec", compressed |-> compressed,
                      decompressed |-> decompress_rom_name(compressed, input.game_name)]
    /\ UNCHANGED <<db, conn, pc, caller, datafile, xml, idx, locals, result,
                   header_version, now, pre, prev, seen, revHigh, games_version, cuedb, cueconn, cuefiles,
                   cuesheet, links, queue, start, trace, input>>

NextCodec == RoundTrip

SpecCodec == InitCodec /\ [][NextCodec]_vars

(***************************************************************************)
(* neutralize, called on its own.                                          *)
(***************************************************************************)
\* most lines of a cue text given to neutralize
MaxCueLines == 3

\* The lines of a cue template: the FILE line of the title, an indented TRACK
\* line, an INDEX line, a REM line, an empty line.
TemplateLines ==
    {FileLine,
     <<" ", " ", "T", "R", "A", "C", "K", " ", "0", "1", " ", "A", "U", "D", "I", "O">>,
     <<" ", " ", " ", " ", "I", "N", "D", "E", "X", " ", "0", "1", " ", "0", "0", ":", "0", "0", ":", "0", "0">>,
     <<"R", "E", "M", " ", "x">>,
     <<>>}

Titles == {<<"D">>, <<"Z">>}

CueTemplates ==
    {Join(lines, <<"\n">>) : lines \in SeqsUpTo(TemplateLines, MaxCueLines) \ {<<>>}}

\* The calls: neutralize of a cue of a title with the path of that title or
\* of another; and neutralize of the cues of two titles, each with its path.
NeutralizeInputs ==
    {[fn |-> "neutralize", content |-> Fill(t, title), name |-> stem \o ExtCue] :
        t \in CueTemplates, title \in Titles, stem \in Titles}
    \cup {[fn |-> "titles", template |-> t, t1 |-> a, t2 |-> b] :
            t \in CueTemplates, a \in Titles, b \in Titles}

InitNeutralize ==
    /\ Constructed
    /\ input \in NeutralizeInputs
    /\ output = NoCall

\* neutralize(content, path)
Neutralize ==
    /\ input.fn = "neutralize"
    /\ output = NoCall
    /\ output' = [fn |-> "neutralize", ret |-> neutralize(input.content, input.name)]
    /\ UNCHANGED <<db, conn, pc, caller, datafile, xml, idx, locals, result,
                   header_version, now, pre, prev, seen, revHigh, games_version, cuedb, cueconn, cuefiles,
                   cuesheet, links, queue, start, trace, input>>

\* neutralize of the cue of title t1 with the path t1.cue, and of the cue of
\* title t2 with the path t2.cue.
NeutralizeTitles ==
    /\ input.fn = "titles"
    /\ output = NoCall
    /\ output' = [fn |-> "titles",
                  first |-> neutralize(Fill(input.template, input.t1), input.t1 \o ExtCue),
                  second |-> neutralize(Fill(input.template, input.t2), input.t2 \o ExtCue)]
    /\ UNCHANGED <<db, conn, pc, caller, datafile, xml, idx, locals, result,
                   header_version, now, pre, prev, seen, revHigh, games_version, cuedb, cueconn, cuefiles,
                   cuesheet, links, queue, start, trace, input>>

NextNeutralize ==
    \/ Neutralize
    \/ NeutralizeTitles

SpecNeutralize == InitNeutralize /\ [][NextNeutralize]_vars

(***************************************************************************)
(* DumpManager::verify_file and Cuesheets::find_cue_hash.                  *)
(***************************************************************************)
\* The text before a file name in a cue: the look-behind of the pattern of
\* get_track_filenames.
FileOpen == <<"F", "I", "L", "E", " ", "\"">>

\* cuesheets::get_track_filenames: the matches of (?<=FILE ")[^"]+ in the
\* text, each the run of characters other than '"' that follows `FILE "`.
\* verify_cue asks of each whether it exists, so they are kept as a set.
get_track_filenames(content) ==
    LET starts == {i \in DOMAIN content :
                      /\ i > Len(FileOpen)
                      /\ SubSeq(content, i - Len(FileOpen), i - 1) = FileOpen
                      /\ content[i] # "\""}
        EndOf(i) == LET quotes == {j \in i..Len(content) : content[j] = "\""}
                    IN  IF quotes = {} THEN Len(content)
                        ELSE (CHOOSE j \in quotes : \A k \in quotes : j <= k) - 1
    IN  {SubSeq(content, i, EndOf(i)) : i \in starts}

\* Path::extension of a path given by its file name: None for no name, for
\* ".." and for a name with no '.' after its first character, else the name
\* after its last '.'.
extension(name) ==
    LET dots == {i \in DOMAIN name : name[i] = "." /\ i > 1}
    IN  IF name = <<>> \/ name = <<".", ".">> \/ dots = {} THEN {}
        ELSE {SubSeq(name, (CHOOSE i \in dots : \A j \in dots : i >= j) + 1, Len(name))}

\* Cuesheets::find_cue_hash: SELECT sha1 FROM cues WHERE content = the
\* neutralized text, through query_one(..).optional(): Ok(None) for no row,
\* Ok(Some(sha1)) for one row, and the error of query_one for more than one
\* row, which optional() passes on.  A panic of neutralize is an outcome.
find_cue_hash(c, content, name) ==
    LET text == neutralize(content, name)
        rows == {r \in c.cues : r.content = text.text}
    IN  IF text.panic THEN [kind |-> "panic", hash |-> {}]
        ELSE IF Cardinality(rows) > 1 THEN [kind |-> "Err", hash |-> {}]
        ELSE [kind |-> "Ok", hash |-> {r.sha1 : r \in rows}]

\* Catalog::is_rom: whether any row of roms has the SHA-1.
is_rom(c, hash) == \E r \in BagToSet(c.roms) : r.sha1 = hash

\* The content of the file `name` of a directory, a set of files.
ContentOf(dir, name) == (CHOOSE f \in dir : f.name = name).content

IsFile(dir, name) == \E f \in dir : f.name = name

\* DumpManager::verify_standard_file: the SHA-1 of the bytes of the file.
verify_standard_file(c, name, dir) ==
    IF ~IsFile(dir, name) THEN "Err"
    ELSE IF is_rom(c, Sha1(ContentOf(dir, name))) THEN "Verified"
    ELSE "Unverified"

\* DumpManager::verify_cue
verify_cue(c, cues, name, dir) ==
    IF ~IsFile(dir, name) THEN "Err"
    ELSE LET content == ContentOf(dir, name)
             found == find_cue_hash(cues, content, name)
         IN  IF \E filename \in get_track_filenames(content) : ~IsFile(dir, filename)
             THEN "Broken"
             ELSE IF found.kind # "Ok" THEN found.kind
             ELSE IF found.hash = {} THEN "Unverified"
             ELSE IF is_rom(c, Unwrap(found.hash)) THEN "Verified"
             ELSE "Unverified"

\* DumpManager::verify_chd: a temporary directory is made, nothing is
\* extracted into it, and the file is reported broken.
verify_chd(tempdir) == IF tempdir THEN "Broken" ELSE "Err"

\* DumpManager::verify_file
verify_file(c, cues, call) ==
    IF extension(call.name) = {} THEN "Unverified"
    ELSE LET ext == Unwrap(extension(call.name))
         IN  IF ext = <<"c", "u", "e">> THEN verify_cue(c, cues, call.name, call.dir)
             ELSE IF ext = <<"c", "h", "d">> THEN verify_chd(call.tempdir)
             ELSE IF ext \in {<<"b", "i", "n">>, <<"i", "s", "o">>}
                  THEN verify_standard_file(c, call.name, call.dir)
             ELSE "Unverified"

\* verify_file is called on a file of a directory, between updates.
VerifyFile(call) ==
    /\ pc = "idle"
    /\ input' = call
    /\ output' = [fn |-> "verify_file", ret |-> verify_file(db, cuedb, call)]
    /\ UNCHANGED <<db, conn, pc, caller, datafile, xml, idx, locals, result,
                   header_version, now, pre, prev, seen, revHigh, games_version, cuedb, cueconn, cuefiles,
                   cuesheet, links, queue, start, trace>>

\* find_cue_hash is called on a cue text and its path, between updates.
FindCueHash(call) ==
    /\ pc = "idle"
    /\ input' = call
    /\ output' = [fn |-> "find_cue_hash",
                  ret |-> find_cue_hash(cuedb, call.content, call.name)]
    /\ UNCHANGED <<db, conn, pc, caller, datafile, xml, idx, locals, result,
                   header_version, now, pre, prev, seen, revHigh, games_version, cuedb, cueconn, cuefiles,
                   cuesheet, links, queue, start, trace>>

\* The titles of two discs of one track each, whose cues differ in the title
\* alone.
gD == <<"D">>
gZ == <<"Z">>

\* A cue with an empty line between its FILE line and its TRACK line.
CueWithEmptyLine(title) ==
    Fill(FileLine, title)
    \o <<"\n", "\n", " ", " ", "T", "R", "A", "C", "K", " ", "0", "1", " ", "A", "U", "D", "I", "O">>

\* A cue of another disc image: FILE "<title>.iso" BINARY.
CueOfIso(title) ==
    FileOpen \o title \o ExtIso \o <<"\"", " ", "B", "I", "N", "A", "R", "Y">>

\* The bytes of a track.
Bytes == <<"b">>

\* The cue files of the Redump archive in SpecVerify.
CueFilesVerify ==
    {[name |-> t \o ExtCue, content |-> Fill(FileLine, t)] : t \in {gD, gZ}}

\* The datafile of SpecVerify: disc D, its cue and its track.
GamesVerify ==
    {ParsedGame(gD, {"Games"},
                {Rom(gD \o ExtCue, 88, 1, "m0", Sha1(Fill(FileLine, gD))),
                 Rom(gD \o ExtBin, 99, 2, "m1", Sha1(Bytes))})}

\* The directories a verified file lies in: the cue of D with its track and
\* without it, the same with an empty line in the cue, the cue of Z with its
\* track.
DirsVerify ==
    UNION {{{[name |-> t \o ExtCue, content |-> cue], [name |-> t \o ExtBin, content |-> Bytes]} :
                cue \in {Fill(FileLine, t), CueWithEmptyLine(t)}} : t \in {gD, gZ}}
    \cup {{[name |-> gD \o ExtCue, content |-> cue]} :
            cue \in {Fill(FileLine, gD), CueWithEmptyLine(gD)}}

\* What the extraction tool makes of a compressed disc, were it run: nothing
\* when it fails, else the cue of D and its track.
Extractions ==
    {[tool |-> "fails", dir |-> {}],
     [tool |-> "extracts",
      dir |-> {[name |-> gD \o ExtCue, content |-> Fill(FileLine, gD)],
               [name |-> gD \o ExtBin, content |-> Bytes]}]}

\* The calls of verify_file: on a file of a directory, on a track, a text
\* file and a file without extension that are not there, and on the
\* compressed disc, where the temporary directory can be made or not and the
\* tool would fail or not.
VerifyCalls ==
    {[fn |-> "verify_file", name |-> name, dir |-> dir, tempdir |-> TRUE,
      chd |-> [tool |-> "none", dir |-> {}]] :
        name \in {gD \o ExtCue, gZ \o ExtCue, gD \o ExtBin, gD \o <<".", "t", "x", "t">>, gD},
        dir \in {d \in DirsVerify : Cardinality(d) = 2}}
    \cup {[fn |-> "verify_file", name |-> gD \o ExtCue, dir |-> dir, tempdir |-> TRUE,
           chd |-> [tool |-> "none", dir |-> {}]] :
            dir \in {d \in DirsVerify : Cardinality(d) = 1}}
    \cup {[fn |-> "verify_file", name |-> gD \o <<".", "c", "h", "d">>,
           dir |-> {[name |-> gD \o <<".", "c", "h", "d">>, content |-> Bytes]},
           tempdir |-> t, chd |-> x] : t \in BOOLEAN, x \in Extractions}

\* The calls of find_cue_hash.
FindCalls ==
    UNION {{[fn |-> "find_cue_hash", name |-> t \o ExtCue, content |-> cue] :
                cue \in {Fill(FileLine, t), CueWithEmptyLine(t), CueOfIso(t)}} : t \in {gD, gZ}}

\* Imports of the datafile and of the cues, and calls of verify_file and
\* find_cue_hash between them.
NextVerify ==
    \/ \E parsed \in SeqsUpTo(GamesVerify, 1) :
          ImportDatafile("Sony - PlayStation", "Redump", parsed, FALSE)
    \/ ImportBegin
    \/ ImportGame
    \/ ImportDelete
    \/ ImportCommit
    \/ CuesheetsStart("PSX")
    \/ \E files \in SUBSET CueFilesVerify : CuesImport(files)
    \/ CuesFailure
    \/ CuesTouch
    \/ \E call \in VerifyCalls : VerifyFile(call)
    \/ \E call \in FindCalls : FindCueHash(call)

SpecVerify == Init /\ [][NextVerify]_vars

(***************************************************************************)
(* Imports of documents, well-formed and not.                              *)
(***************************************************************************)
\* n hex digits: zeros, and the last digit.
HexOf(n, last) == [i \in 1..n |-> IF i = n THEN last ELSE "0"]

\* A <rom> element with the five required attributes, no status and no
\* sha256.
RomElement(name, crc) ==
    [name |-> {name}, status |-> {}, size |-> {<<"8", "8">>}, crc |-> {crc},
     md5 |-> {HexOf(32, "a")}, sha1 |-> {HexOf(40, "b")}, sha256 |-> {}]

\* The <rom> elements parse_game_rom fails on: each required attribute
\* missing in turn; a size that is no number, and an empty one; a crc of seven
\* digits, an md5 of thirty, a sha1 of forty-two.
BadRomElements ==
    LET rom == RomElement(gA \o ExtBin, HexOf(8, "1"))
    IN  {[rom EXCEPT !.name = {}], [rom EXCEPT !.size = {}], [rom EXCEPT !.crc = {}],
         [rom EXCEPT !.md5 = {}], [rom EXCEPT !.sha1 = {}],
         [rom EXCEPT !.size = {<<"8", "x">>}], [rom EXCEPT !.size = {<<>>}],
         [rom EXCEPT !.crc = {HexOf(7, "1")}], [rom EXCEPT !.md5 = {HexOf(30, "a")}],
         [rom EXCEPT !.sha1 = {HexOf(42, "b")}]}

GameElement(name, categories, roms) ==
    [name |-> name, categories |-> categories, roms |-> roms]

\* The <game> elements parse_game fails on: a game without a name, and C
\* with a good ROM followed by each of the bad ones.
BadGameElements ==
    {GameElement({}, {"Games"}, <<RomElement(gA \o ExtCue, HexOf(8, "1"))>>)}
    \cup {GameElement({gC}, {}, <<RomElement(gC \o ExtCue, HexOf(8, "1")), rom>>) :
            rom \in BadRomElements}

\* The documents: no game, A, A changed, A and B; and a bad element alone,
\* after A, and, for the game without a name, before A.
Documents ==
    LET a1 == GameElement({gA}, {"Games"}, <<RomElement(gA \o ExtCue, HexOf(8, "1"))>>)
        a2 == GameElement({gA}, {"Games"}, <<RomElement(gA \o ExtCue, HexOf(8, "F"))>>)
        b1 == GameElement({gB}, {"Bonus Discs"}, <<RomElement(gB \o ExtIso, HexOf(8, "1"))>>)
    IN  {<<>>, <<a1>>, <<a2>>, <<a1, b1>>}
        \cup {<<bad>> : bad \in BadGameElements}
        \cup {<<a1, bad>> : bad \in BadGameElements}
        \cup {<<GameElement({}, {"Games"}, <<>>), a1>>}

\* Imports of the documents into one datafile.
NextParse ==
    \/ \E document \in Documents :
          ImportDocument("Sony - PlayStation", "Redump", document, FALSE)
    \/ ImportBegin
    \/ ImportGame
    \/ ImportDelete
    \/ ImportCommit

SpecParse == Init /\ [][NextParse]_vars

(***************************************************************************)
(* Datafile::get, called on its own.                                       *)
(***************************************************************************)
\* Datafile::get(connection, name, author) on the catalog's connection,
\* between updates: what it writes is committed at once.
DatafileGetCall(name, author) ==
    /\ pc = "idle"
    /\ LET got == datafile_get(conn, name, author, 0)
       IN  /\ conn' = got.c
           /\ db' = got.c
           /\ input' = [fn |-> "Datafile::get", name |-> name, author |-> author]
           /\ output' = [fn |-> "Datafile::get", ret |-> got.datafile, calls |-> got.calls]
    /\ UNCHANGED <<pc, caller, datafile, xml, idx, locals, result, header_version, now,
                   pre, prev, seen, revHigh, games_version, cuedb, cueconn, cuefiles, cuesheet, links, queue,
                   start, trace>>

\* The datafiles asked for: three of Redump, one of No-Intro.
DatafileNames ==
    {<<"Sony - PlayStation", "Redump">>, <<"Sony - PlayStation 2", "Redump">>,
     <<"Sega - Dreamcast", "Redump">>, <<"Nintendo - Game Boy", "No-Intro">>}

\* Calls of Datafile::get in any order, and imports into the first datafile
\* between them.
NextGet ==
    \/ \E d \in DatafileNames : DatafileGetCall(d[1], d[2])
    \/ \E parsed \in SeqsUpTo(GamesFresh, 1) :
          ImportDatafile("Sony - PlayStation", "Redump", parsed, FALSE)
    \/ ImportBegin
    \/ ImportGame
    \/ ImportDelete
    \/ ImportCommit

SpecGet == Init /\ [][NextGet]_vars

(***************************************************************************)
(* The crc of a ROM: parsed, stored and read back.                         *)
(***************************************************************************)
\* The crc attributes of the harness: eight hex digits, of either case, with
\* the high bit clear and set.
CrcAttributes ==
    {<<"0", "0", "0", "0", "0", "0", "0", "0">>,
     <<"0", "0", "0", "0", "0", "0", "0", "1">>,
     <<"0", "1", "0", "0", "0", "0", "0", "0">>,
     <<"7", "F", "F", "F", "F", "F", "F", "F">>,
     <<"8", "0", "0", "0", "0", "0", "0", "0">>,
     <<"8", "0", "0", "0", "0", "0", "0", "1">>,
     <<"F", "F", "F", "F", "F", "F", "F", "F">>,
     <<"f", "f", "f", "f", "f", "f", "f", "f">>,
     <<"D", "E", "A", "D", "B", "E", "E", "F">>,
     <<"d", "e", "a", "d", "b", "e", "e", "f">>,
     <<"D", "e", "a", "d", "B", "e", "e", "f">>}

\* The game the ROMs of the harness belong to, stored with gid 1.
CrcGame == [ParsedGame(gA, {}, {}) EXCEPT !.gid = {1}]

\* The <rom> elements of two crc attributes.
InitCrc ==
    /\ Constructed
    /\ input \in {[fn |-> "crc", first |-> a, second |-> b] :
                     a \in CrcAttributes, b \in CrcAttributes}
    /\ output = NoCall

\* parse_game_rom of each element, the row insert_roms writes for the ROM,
\* and the ROM Game::load builds from the row.
CrcRoundTrip ==
    /\ input.fn = "crc"
    /\ output = NoCall
    /\ LET Parsed(crc) == Unwrap(parse_game_rom(RomElement(gA \o ExtCue, crc)))
           Loaded(crc) == RomOfRow(RomRow(CrcGame, Parsed(crc)), CrcGame.name)
       IN  output' = [fn |-> "crc",
                      parsed |-> <<Parsed(input.first).crc32, Parsed(input.second).crc32>>,
                      loaded |-> <<Loaded(input.first).crc32, Loaded(input.second).crc32>>]
    /\ UNCHANGED <<db, conn, pc, caller, datafile, xml, idx, locals, result,
                   header_version, now, pre, prev, seen, revHigh, games_version, cuedb, cueconn, cuefiles,
                   cuesheet, links, queue, start, trace, input>>

NextCrc == CrcRoundTrip

SpecCrc == InitCrc /\ [][NextCrc]_vars

(***************************************************************************)
(* Category: parsed from a string, written to its column and read back.    *)
(***************************************************************************)
\* largest integer read from the category column in SpecCategory
MaxCategoryInt == 130

\* The texts of <category> elements: the eleven names the code knows, and
\* others, among them the names in another case, the names of the enum that
\* are not those of the datafile, and the empty text.
CategoryTexts ==
    {"Games", "Demos", "Coverdiscs", "Applications", "Preproduction", "Educational",
     "Bonus Discs", "Multimedia", "Add-Ons", "Audio", "Video",
     "", "games", "GAMES", "Games ", "BonusDiscs", "Bonus discs", "Addons", "Add-ons",
     "Unknown", "Music", "127"}

InitCategory ==
    /\ Constructed
    /\ input \in {[fn |-> "Category::from", value |-> v] : v \in CategoryTexts}
                 \cup {[fn |-> "Category::to_sql", value |-> c] : c \in Category}
                 \cup {[fn |-> "Category::column_result", value |-> n] :
                         n \in -2..MaxCategoryInt}
    /\ output = NoCall

\* Category::from(value)
CategoryParse ==
    /\ input.fn = "Category::from"
    /\ output = NoCall
    /\ output' = [fn |-> input.fn, ret |-> CategoryFromStr(input.value)]
    /\ UNCHANGED <<db, conn, pc, caller, datafile, xml, idx, locals, result,
                   header_version, now, pre, prev, seen, revHigh, games_version, cuedb, cueconn, cuefiles,
                   cuesheet, links, queue, start, trace, input>>

\* The category is written to the column (to_sql) and the column is read
\* (column_result).
CategoryStore ==
    /\ input.fn = "Category::to_sql"
    /\ output = NoCall
    /\ output' = [fn |-> input.fn, written |-> CategoryToSql(input.value),
                  ret |-> CategoryFromSql(CategoryToSql(input.value))]
    /\ UNCHANGED <<db, conn, pc, caller, datafile, xml, idx, locals, result,
                   header_version, now, pre, prev, seen, revHigh, games_version, cuedb, cueconn, cuefiles,
                   cuesheet, links, queue, start, trace, input>>

\* Category::column_result on an integer of the column.
CategoryRead ==
    /\ input.fn = "Category::column_result"
    /\ output = NoCall
    /\ output' = [fn |-> input.fn, ret |-> CategoryFromSql(input.value)]
    /\ UNCHANGED <<db, conn, pc, caller, datafile, xml, idx, locals, result,
                   header_version, now, pre, prev, seen, revHigh, games_version, cuedb, cueconn, cuefiles,
                   cuesheet, links, queue, start, trace, input>>

NextCategory ==
    \/ CategoryParse
    \/ CategoryStore
    \/ CategoryRead

SpecCategory == InitCategory /\ [][NextCategory]_vars

(***************************************************************************)
(* Full updates repeated for ever, whatever the last one returned.          *)
(***************************************************************************)
\* update_all_consoles is called again and again; the No-Intro index and any
\* No-Intro download may fail, every Redump download and import succeeds;
\* time passes between two full updates.
NextRepeat ==
    \/ AllStart
    \/ \E index \in Indexes : IndexFetch(index)
    \/ IndexFailure
    \/ Dispatch
    \/ Advance
    \/ Abort
    \/ RedumpFetch("1", <<>>)
    \/ NoIntroFetch("1", <<>>)
    \/ (caller = "nointro" /\ FetchFailure)
    \/ ImportBegin
    \/ ImportCommit
    \/ Touch
    \/ (queue = <<>> /\ Tick)

\* The caller and the program always take their next step, and the clock
\* goes on between two full updates until the last instant.
SpecRepeat ==
    /\ Init
    /\ [][NextRepeat]_vars
    /\ WF_vars(NextRepeat)
    /\ SF_vars(queue = <<>> /\ Tick)

(***************************************************************************)
(* Console updates that fail before the datafiles row is written.          *)
(***************************************************************************)
\* Updates of one Redump console and of one No-Intro console, in any order,
\* while time passes; the download, the header and every statement of the
\* importer may fail.
NextFailing ==
    \/ RedumpStart("Sony - PlayStation")
    \/ \E version \in Versions, parsed \in SeqsUpTo(GamesFresh, 1) :
          RedumpFetch(version, parsed)
    \/ \E link \in Links : NoIntroStart("Nintendo - Game Boy", link)
    \/ \E parsed \in SeqsUpTo(GamesFresh, 1) : NoIntroFetch("1", parsed)
    \/ FetchFailure
    \/ ImportBegin
    \/ ImportGame
    \/ ImportDelete
    \/ ImportCommit
    \/ StorageFailure
    \/ Touch
    \/ Tick

SpecFailing == Init /\ [][NextFailing]_vars

(***************************************************************************)
(* Cuesheets::import_cues, called on its own.                              *)
(***************************************************************************)
\* most entries of a directory given to import_cues
MaxCueFiles == 2

\* The directory entries: the cue of game A; the same text under the name of
\* game B (one SHA-1, another neutral text); the cue of game B; a cue file on
\* which neutralize panics; a directory.
CueEntries ==
    {[name |-> gA \o ExtCue, content |-> Fill(FileLine, gA), is_file |-> TRUE],
     [name |-> gB \o ExtCue, content |-> Fill(FileLine, gA), is_file |-> TRUE],
     [name |-> gB \o ExtCue, content |-> Fill(FileLine, gB), is_file |-> TRUE],
     [name |-> gC \o ExtCue, content |-> <<"R", "E", "M">>, is_file |-> TRUE],
     [name |-> gC, content |-> <<>>, is_file |-> FALSE]}

CueDirs == {dir \in SUBSET CueEntries : Cardinality(dir) <= MaxCueFiles}

\* import_cues on every directory above, one call after the other; any step
\* of a call may fail.
NextCues ==
    \/ \E dir \in CueDirs : ImportCues(dir)
    \/ CueInsert
    \/ CuesCommit
    \/ CuesRollback

SpecCues == Init /\ [][NextCues]_vars

(***************************************************************************)
(* Properties.                                                             *)
(***************************************************************************)
\* The content tuple of a ROM or of a roms row.
ContentTuple(rom) == <<rom.size, rom.crc32, rom.md5, rom.sha1>>

TuplesOf(roms) == {ContentTuple(r) : r \in roms}

GamesOf(c, dfid) == {g \in c.games : g.dfid = dfid}

StoredCategories(c, gid) == {r.category : r \in SelectByGid(c.game_categories, gid)}

StoredTuples(c, gid) == TuplesOf(SelectByGid(c.roms, gid))

\* The games of a datafile as the tables hold them, and the games of a parsed
\* datafile: name, category set (as the column's integers), content tuples.
StoredView(c, dfid) ==
    {[name |-> g.name, categories |-> StoredCategories(c, g.gid),
      tuples |-> StoredTuples(c, g.gid)] : g \in GamesOf(c, dfid)}

ParsedView(parsed) ==
    {[name |-> parsed[i].name,
      categories |-> {CategoryToSql(k) : k \in parsed[i].categories},
      tuples |-> TuplesOf(parsed[i].roms)] : i \in DOMAIN parsed}

ImportErrors == {"DuplicateGame", "StorageError", "MissingGid", "MissingGame"}

ImportOk == pc = "idle" /\ caller = "harness" /\ result = "Ok"

ImportFailed == pc = "idle" /\ caller = "harness" /\ result \in ImportErrors

\* The import that just succeeded repeats the successful import before it.
SameAsBefore == ImportOk /\ prev.dfid = datafile.dfid /\ prev.xml = xml

\* C1: after a successful import of a parsed datafile (its names distinct)
\* into datafile d, the stored games of d are the parsed games: one row per
\* parsed game, with the same names, category sets and sets of ROM content
\* tuples, whatever was stored before.
C1_StoredEqualsParsed ==
    (ImportOk /\ DistinctNames(xml)) =>
        /\ StoredView(db, datafile.dfid) = ParsedView(xml)
        /\ Cardinality(GamesOf(db, datafile.dfid)) = Len(xml)

\* A successful import over a stored state that overlaps the datafile: one
\* game kept and changed, one removed, one added.
C1_Overlapping ==
    /\ ImportOk
    /\ LET before == {g.name : g \in GamesOf(pre, datafile.dfid)}
       IN  /\ before \cap Names(xml) # {}
           /\ before \ Names(xml) # {}
           /\ Names(xml) \ before # {}
    /\ changed_entries = 1 /\ new_entries = 1 /\ removed_games = 1

\* C2: when an import ends in an error, the games, game_categories and roms
\* tables are as they were before the import started, both committed and on
\* the importer's own connection.
C2_ErrorLeavesTables ==
    ImportFailed =>
        /\ GameTables(db) = GameTables(pre)
        /\ GameTables(conn) = GameTables(pre)

\* An import that failed on a repeated name after it had inserted a game,
\* over a store that held games.
C2_FailedAfterWrites ==
    /\ ImportFailed
    /\ result = "DuplicateGame"
    /\ new_entries >= 1
    /\ pre.games # {}

\* C3: what a reader reads while an import runs or after it ended is the
\* complete state before the import or, once the import has succeeded, the
\* complete state after it; never a state in between.
C3_ReaderSeesPreOrPost ==
    seen.read =>
        \/ seen.tables = GameTables(pre)
        \/ ImportOk /\ seen.tables = GameTables(db)

\* A reader read while the transaction had writes pending.
C3_ReadWhileWriting ==
    /\ seen.read
    /\ pc \in ImportPcs
    /\ seen.pending # seen.tables
    /\ seen.tables = GameTables(pre)

\* C4: the datafiles row's version is committed together with the game
\* changes: whenever the committed games of the datafile being updated differ
\* from those before the import, its datafiles row carries the version of the
\* header they were imported from.
C4_VersionCommittedWithGames ==
    \A d \in db.datafiles :
        (/\ caller \in {"redump", "nointro"}
         /\ d.dfid = datafile.dfid
         /\ GamesOf(db, d.dfid) # GamesOf(pre, d.dfid))
        => d.version = header_version

\* C5: importing the same parsed datafile twice in a row into one datafile
\* gives, the second time, changed = 0, added = 0, removed = 0, unchanged =
\* the number of games, and every row as it was.
C5_SecondImportChangesNothing ==
    SameAsBefore =>
        /\ changed_entries = 0
        /\ new_entries = 0
        /\ removed_games = 0
        /\ unchanged_entries = Len(xml)
        /\ db = pre

\* C6: a stored game re-imported with ROMs of the same content tuples under
\* other names keeps its revision; re-imported with a set of content tuples
\* that differs from the stored one, its revision goes up by exactly one.
C6_RevisionFollowsContent ==
    ImportOk =>
        \A i \in DOMAIN xml, g \in GamesOf(pre, datafile.dfid),
           h \in GamesOf(db, datafile.dfid) :
            (g.name = xml[i].name /\ h.name = g.name) =>
                LET same == StoredTuples(pre, g.gid) = TuplesOf(xml[i].roms)
                    stored_names == {decompress_rom_name(r.name, g.name) :
                                        r \in SelectByGid(pre.roms, g.gid)}
                    renamed == stored_names # {r.name : r \in xml[i].roms}
                IN  /\ (same /\ renamed) => h.revision = g.revision
                    /\ ~same => h.revision = g.revision + 1

\* C7: re-importing a datafile that differs from the stored state only in
\* the category set of a game keeps the game's revision, replaces its
\* game_categories rows by the new set, and counts the game as unchanged
\* (changed = 0).
C7_CategoryChangeCountsUnchanged ==
    (ImportOk /\ Len(xml) = 1) =>
        \A g \in GamesOf(pre, datafile.dfid), h \in GamesOf(db, datafile.dfid) :
            LET stored == GameLoad(pre, get_all_games_unloaded(pre, datafile.dfid)[g.name])
            IN  (/\ g.name = xml[1].name /\ h.name = g.name
                 /\ stored.roms = xml[1].roms
                 /\ stored.categories # xml[1].categories)
                => /\ h.revision = g.revision
                   /\ StoredCategories(db, h.gid)
                        = {CategoryToSql(k) : k \in xml[1].categories}
                   /\ changed_entries = 0
                   /\ unchanged_entries = 1

\* C8 (as the claim states it): the stored revision of a (datafile, game
\* name) is never below a revision committed for it earlier, also when the
\* game was absent from a datafile imported in between.
C8_NeverBelowEarlier ==
    \A h \in db.games, t \in revHigh :
        (t[1] = h.dfid /\ t[2] = h.name) => h.revision >= t[3]

\* C8 (amended): every stored revision is >= 0, and a commit never leaves a
\* game that is stored before and after it with a smaller revision.
C8_RevisionKeptWhileStored ==
    [][/\ \A h \in db'.games : h.revision >= 0
       /\ \A g \in db.games, h \in db'.games :
            (g.dfid = h.dfid /\ g.name = h.name) => h.revision >= g.revision]_vars

\* A game of revision >= 1 stayed stored across a successful import that
\* changed its content.
C8_StoredAcrossImport ==
    /\ ImportOk
    /\ \E g \in GamesOf(pre, datafile.dfid), h \in GamesOf(db, datafile.dfid) :
          g.name = h.name /\ g.revision >= 1 /\ h.revision = g.revision + 1

\* The chain original, modified, original: the import that just succeeded
\* repeats the datafile imported two successful imports ago.
OriginalAgain ==
    /\ ImportOk
    /\ prev.dfid = datafile.dfid
    /\ prev.dfid0 = datafile.dfid
    /\ prev.xml0 = xml

\* C9: a game stored with revision r by a datafile, then imported from a
\* datafile in which its ROM content differs, then from the original
\* datafile again, has revision r + 2.
C9_ModifiedThenOriginal ==
    OriginalAgain =>
        \A i \in DOMAIN xml, j \in DOMAIN prev.xml,
           g \in GamesOf(prev.pre, datafile.dfid), h \in GamesOf(db, datafile.dfid) :
            (/\ xml[i].name = g.name /\ prev.xml[j].name = g.name /\ h.name = g.name
             /\ TuplesOf(prev.xml[j].roms) # TuplesOf(xml[i].roms))
            => h.revision = g.revision + 2

\* Original, a datafile whose ROM differs in sha1 alone, original again.
C9_SwitchedBack ==
    /\ OriginalAgain
    /\ Len(xml) = 1 /\ Len(prev.xml) = 1
    /\ xml[1].roms = {RomOne(gA \o ExtCue)}
    /\ prev.xml[1].roms = {RomTwo(gA \o ExtCue)}
    /\ \E g \in GamesOf(prev.pre, datafile.dfid), h \in GamesOf(db, datafile.dfid) :
          g.name = gA /\ h.name = gA /\ h.revision = g.revision + 2

\* C10: an import of a datafile in which a game name occurs more than once
\* ends in the duplicate-game error (unless the storage layer fails first),
\* wherever the two occurrences are and whether or not the name is stored;
\* and the duplicate-game error has no other cause, such as a game of an
\* equal name in another datafile.
C10_DuplicateNamesFail ==
    (pc = "idle" /\ caller = "harness") =>
        /\ (~DistinctNames(xml) /\ result # "StorageError") => result = "DuplicateGame"
        /\ result = "DuplicateGame" => ~DistinctNames(xml)

\* The duplicate-game error for a name repeated with another game in
\* between, the name stored in the other datafile only.
C10_NonAdjacentDuplicate ==
    /\ pc = "idle" /\ result = "DuplicateGame"
    /\ Len(xml) = 3
    /\ xml[1].name = xml[3].name /\ xml[2].name # xml[1].name
    /\ xml[1].name \notin {g.name : g \in GamesOf(db, datafile.dfid)}
    /\ \E g \in db.games : g.dfid # datafile.dfid /\ g.name = xml[1].name

\* C11: after any sequence of imports, successful or failed, into any
\* datafiles, no two games rows have the same (dfid, name), neither committed
\* nor on the importer's connection.
C11_NameUniqueInDatafile ==
    \A c \in {db, conn} : \A g, h \in c.games :
        (g.dfid = h.dfid /\ g.name = h.name) => g = h

\* After a failed import: two games in one datafile, one of them under a name
\* that the other datafile holds too.
C11_SameNameAcrossDatafiles ==
    /\ ImportFailed
    /\ Cardinality(GamesOf(db, datafile.dfid)) >= 2
    /\ \E g \in GamesOf(db, datafile.dfid), h \in db.games :
          h.dfid # g.dfid /\ h.name = g.name

\* C12: after any sequence of imports every roms row and every
\* game_categories row has the gid of exactly one games row, and every games
\* row has the dfid of exactly one datafiles row; a game that left the
\* datafile leaves no ROM or category row behind.
C12_RowsBelongToOneGame ==
    /\ \A r \in DOMAIN db.roms \cup DOMAIN db.game_categories :
          Cardinality({g \in db.games : g.gid = r.gid}) = 1
    /\ \A g \in db.games :
          Cardinality({d \in db.datafiles : d.dfid = g.dfid}) = 1

\* A successful import removed a game that had ROM and category rows, and
\* other games' rows remain.
C12_RemovedGameHadRows ==
    /\ ImportOk
    /\ removed_games >= 1
    /\ \E g \in GamesOf(pre, datafile.dfid) :
          /\ g.name \notin Names(xml)
          /\ SelectByGid(pre.roms, g.gid) # {}
          /\ SelectByGid(pre.game_categories, g.gid) # {}
    /\ DOMAIN db.roms # {}

\* The rows of the datafiles other than dfid: their games rows and the
\* category and ROM rows of those games.
RowsOutside(c, dfid) ==
    LET gids == {g.gid : g \in {h \in c.games : h.dfid # dfid}}
    IN  [games |-> {g \in c.games : g.dfid # dfid},
         game_categories |-> [r \in {x \in DOMAIN c.game_categories : x.gid \in gids}
                                 |-> c.game_categories[r]],
         roms |-> [r \in {x \in DOMAIN c.roms : x.gid \in gids} |-> c.roms[r]]]

\* C13: an import into datafile d, while it runs and when it has ended,
\* leaves the games, game_categories and roms rows of every other datafile as
\* they were, also those of a game whose name is added, changed or removed
\* in d.
C13_OtherDatafilesUntouched ==
    (caller = "harness") =>
        /\ RowsOutside(db, datafile.dfid) = RowsOutside(pre, datafile.dfid)
        /\ RowsOutside(conn, datafile.dfid) = RowsOutside(pre, datafile.dfid)

\* A successful import changed the content of a game of d whose name another
\* datafile holds, with rows of its own.
C13_ChangedSameName ==
    /\ ImportOk
    /\ \E g \in GamesOf(pre, datafile.dfid), k \in GamesOf(db, datafile.dfid),
          h \in db.games :
          /\ k.name = g.name /\ k.revision = g.revision + 1
          /\ h.dfid # datafile.dfid /\ h.name = g.name
          /\ SelectByGid(db.roms, h.gid) # {}

\* No two ROMs of the set agree on the content tuple.
NoTwoOfOneContent(roms) == Cardinality(TuplesOf(roms)) = Cardinality(roms)

\* C14: in every game, parsed or stored, no two ROMs agree on all of size,
\* crc32, md5 and sha1: two <rom> elements of one content are held as one
\* ROM, and stored as one row.
C14_OneRomPerContent ==
    /\ \A i \in DOMAIN xml : NoTwoOfOneContent(xml[i].roms)
    /\ \A i \in DOMAIN xml : \A a, b \in xml[i].roms :
          ContentTuple(a) = ContentTuple(b) =>
              Cardinality(add_rom(add_rom([xml[i] EXCEPT !.roms = {}], a), b).roms) = 1
    /\ \A g \in db.games :
          LET rows == [r \in SelectByGid(db.roms, g.gid) |-> db.roms[r]]
          IN  BagCardinality(rows) = Cardinality(StoredTuples(db, g.gid))

\* The events of the running (or last) outermost call.
Events == {trace[i] : i \in DOMAIN trace}

\* The console update of the record `name` has returned Ok.
ReturnedOk(kind) == caller = kind /\ pc = "idle" /\ result = "Ok"

\* C15: an update of a Redump console whose fetched header has the empty
\* version does not skip the import, also when the record was never imported
\* (its stored version is the empty string).
C15_EmptyVersionImports ==
    (/\ ReturnedOk("redump")
     /\ <<"download", start.name>> \in Events
     /\ header_version = "") =>
        <<"import", start.name>> \in Events

\* The minimum delay between two downloads for the running kind of update.
DelayOf(kind) == IF kind = "cues" THEN CueUpdateDelay ELSE MinUpdateDelay

\* The age of the record when the console update was called.
AgeAtCall == start.now - start.last_updated

\* C16: a console update (Redump datafile, No-Intro datafile, Redump
\* cuesheets) downloads only if the age of the record at the call, now -
\* last_updated, is at least the minimum delay (2 days for the catalog, 7 for
\* the cuesheets); when it is smaller the update has returned success without
\* a download and without changing any stored row.
C16_DownloadsOnlyWhenStale ==
    (caller \in {"redump", "nointro", "cues"}) =>
        /\ <<"download", start.name>> \in Events => AgeAtCall >= DelayOf(caller)
        /\ pc \in {"fetch", "cuefetch"} => <<"download", start.name>> \in Events
        /\ AgeAtCall < DelayOf(caller) =>
              /\ ReturnedOk(caller)
              /\ <<"download", start.name>> \notin Events
              /\ db = start.db
              /\ conn = start.db
              /\ cuedb = start.cuedb

\* The cuesheets update returned at once, six days or less after cue files
\* were imported, while the catalog holds a game.
C16_FreshCuesheets ==
    /\ ReturnedOk("cues")
    /\ AgeAtCall < CueUpdateDelay
    /\ AgeAtCall >= MinUpdateDelay
    /\ cuedb.cues # {}
    /\ db.games # {}

\* The datafiles row of the record the console update was called for.
RowOf(c) == CHOOSE d \in c.datafiles : d.name = start.name

\* C17: when update_redump_console has fetched an eligible datafile, a header
\* version equal to the stored one makes it set last_updated to now, keep the
\* version and leave the games, game_categories and roms rows as they are; a
\* different version makes it run the import and, after it, store the new
\* version and last_updated = now.
C17_VersionDecides ==
    [][/\ (caller = "redump" /\ pc = "fetch" /\ pc' # "fetch" /\ result' # "FetchError") =>
             IF header_version' = start.version
             THEN /\ pc' = "idle" /\ result' = "Ok"
                  /\ RowOf(db') = [RowOf(db) EXCEPT !.last_updated = now]
                  /\ RowOf(db').version = start.version
                  /\ GameTables(db') = GameTables(db)
                  /\ conn' = db'
                  /\ trace' = trace
             ELSE /\ pc' = "begin"
                  /\ <<"import", start.name>> \in {trace'[i] : i \in DOMAIN trace'}
                  /\ db' = db
       /\ (caller = "redump" /\ pc = "imported" /\ pc' = "idle" /\ result' = "Ok") =>
             /\ RowOf(db') = [RowOf(db) EXCEPT !.version = header_version,
                                               !.last_updated = now]
             /\ header_version # start.version
             /\ GameTables(db') = GameTables(db)
             /\ StoredView(db', datafile.dfid) = ParsedView(xml)]_vars

\* An update of a Redump console returned after a download whose header
\* version, not empty, was the stored one, with a game stored.
C17_SameVersionTouched ==
    /\ ReturnedOk("redump")
    /\ <<"download", start.name>> \in Events
    /\ <<"import", start.name>> \notin Events
    /\ header_version = start.version
    /\ header_version # ""
    /\ db.games # {}
    /\ RowOf(db).last_updated = now
    /\ start.last_updated < now

\* C18: when update_nointro_console is called for an eligible datafile that
\* the index lists with a last_updated no later than the stored one, it
\* downloads nothing, leaves the stored version and every games,
\* game_categories and roms row as they were, and sets the stored
\* last_updated to the time of the call.
C18_ListedNotNewerTouches ==
    (/\ caller = "nointro"
     /\ AgeAtCall >= MinUpdateDelay
     /\ start.link.listed
     /\ start.link.last_updated <= start.last_updated) =>
        /\ ReturnedOk("nointro")
        /\ <<"download", start.name>> \notin Events
        /\ RowOf(db).version = start.version
        /\ RowOf(db).last_updated = start.now
        /\ GameTables(db) = GameTables(start.db)
        /\ conn = db

\* The index listed a stored, imported datafile with the very last_updated
\* the catalog holds for it, two days or more after that time.
C18_ListedAsOldAsStored ==
    /\ caller = "nointro"
    /\ AgeAtCall >= MinUpdateDelay
    /\ start.link.listed
    /\ start.link.last_updated = start.last_updated
    /\ start.last_updated > 0
    /\ start.version # ""
    /\ db.games # {}

\* The trace is that of a call of update_all_consoles, which has ended.
FullUpdate == trace # <<>> /\ trace[1][1] = "update_all_consoles"

FullUpdateEnded == FullUpdate /\ queue = <<>> /\ pc = "idle"

\* When update_all_consoles was called, no No-Intro datafile was recorded or
\* the oldest one was as old as the minimum delay.
StaleAtCall ==
    LET times == {d.last_updated : d \in {x \in trace[1][3] : x.author = "No-Intro"}}
    IN  times = {} \/ \E t \in times : trace[1][2] - t >= MinUpdateDelay

IndexFetches == Cardinality({i \in DOMAIN trace : trace[i] = <<"index">>})

\* The Redump datafiles of the nine consoles, in the order of the calls.
NineRedump ==
    <<"Sega - Dreamcast", "Nintendo - GameCube", "Sony - PlayStation",
      "Sony - PlayStation 2", "Sony - PlayStation 3", "Sony - PlayStation Portable",
      "Nintendo - Wii", "Microsoft - Xbox", "Microsoft - Xbox 360">>

IsRedumpCall(e) ==
    e[1] = "console" /\ e[2] \in {NineRedump[i] : i \in DOMAIN NineRedump}

\* The Redump datafiles whose console update was called, in that order.
RedumpDispatched ==
    LET calls == SelectSeq(trace, IsRedumpCall)
    IN  [i \in DOMAIN calls |-> calls[i][2]]

IsPrefix(a, b) == Len(a) <= Len(b) /\ a = SubSeq(b, 1, Len(a))

C20_OneNoIntroOneRedump ==
    (/\ FullUpdate
     /\ <<"index">> \in Events
     /\ pc = "idle" /\ result = "next" /\ queue # <<>>
     /\ {"nointro", "redump"} \subseteq {queue[i][1] : i \in DOMAIN queue}) =>
        IF caller = "all" THEN Head(queue)[1] = "nointro"
        ELSE Head(queue)[1] # caller

\* C21: for every ROM name and game name, decompress_rom_name(
\* compress_rom_name(rom_name, game_name), game_name) is rom_name, also for
\* ROM names that contain '#', that start with '$', that contain the game
\* name more than once, and for the empty game name.
C21_CodecRoundTrip ==
    output.fn = "codec" => output.decompressed = input.rom_name

\* The first space-delimited token of a line.
FirstToken(line) == IF Find(line, " ") = 0 THEN line ELSE SubSeq(line, 1, Find(line, " ") - 1)

IsCommandLine(line) == FirstToken(line) \in SupportedCommands

\* What neutralize is to return: the lines of the text, each trimmed, whose
\* first token is a supported command, joined by '\n', the file stem
\* replaced by '$'.
Neutralized(content, name) ==
    LET lines == SplitOn(content, "\n")
        trimmed == [i \in DOMAIN lines |-> Trim(lines[i])]
    IN  Replace(Join(SelectSeq(trimmed, IsCommandLine), <<"\n">>),
                CHOOSE st \in file_stem(name) : TRUE, <<"$">>)

\* C22: for every cue text and path, neutralize completes without failure
\* and returns the lines of the text, each trimmed, whose first
\* space-delimited token is FILE, TRACK, PREGAP, INDEX or POSTGAP, in order
\* and joined by a newline, with every occurrence of the path's file stem
\* replaced by '$'; every other line, blank lines and lines without a space
\* included, is dropped.
C22_NeutralizeKeepsCommands ==
    output.fn = "neutralize" =>
        /\ ~output.ret.panic
        /\ output.ret.text = Neutralized(input.content, input.name)

\* C23: for every cue template and every two titles, the cue of the first
\* title neutralized with that title as stem equals the cue of the second
\* title neutralized with the second title as stem.
C23_TitlesShareNeutralForm ==
    output.fn = "titles" => output.first = output.second


\* A step in which function `fn` was called and returned.
Returned(fn) == <<input, output>>' # <<input, output>> /\ output'.fn = fn

\* The SHA-1s of the stored cue records whose neutralized text is that of
\* the candidate.
StoredMatches(cues, content, name) ==
    {r.sha1 : r \in {x \in cues.cues : x.content = neutralize(content, name).text}}

\* C24: find_cue_hash returns the SHA-1 of a stored record whenever at least
\* one stored record has the candidate's neutralized text, also when several
\* records of different SHA-1 share it, and returns None, not an error, when
\* none has it.
C24_FindsAStoredRecord ==
    [][(Returned("find_cue_hash") /\ ~neutralize(input'.content, input'.name).panic) =>
          LET matches == StoredMatches(cuedb, input'.content, input'.name)
          IN  /\ output'.ret.kind = "Ok"
              /\ matches = {} => output'.ret.hash = {}
              /\ matches # {} => (output'.ret.hash # {} /\ output'.ret.hash \subseteq matches)]_vars

\* A call of verify_file on a file that is there and has the extension.
VerifyReturned(ext) ==
    /\ Returned("verify_file")
    /\ extension(input'.name) = {ext}
    /\ IsFile(input'.dir, input'.name)

\* C25: verify_file on a .cue returns Broken exactly when a sibling named by
\* a FILE "<name>" token is missing; else Verified exactly when the lookup
\* yields a SHA-1 that is a known ROM, and Unverified otherwise.
C25_CueStatus ==
    [][VerifyReturned(<<"c", "u", "e">>) =>
          LET content == ContentOf(input'.dir, input'.name)
              missing == \E filename \in get_track_filenames(content) :
                              ~IsFile(input'.dir, filename)
              known == \E h \in StoredMatches(cuedb, content, input'.name) : is_rom(db, h)
          IN  /\ output'.ret \in {"Broken", "Verified", "Unverified"}
              /\ output'.ret = "Broken" <=> missing
              /\ ~missing => (output'.ret = "Verified" <=> known)]_vars

\* C26: verify_file on a .chd returns Broken only when the extraction tool
\* fails; when it extracts, the result is that of verifying the extracted
\* cuesheet.
C26_ChdStatus ==
    [][VerifyReturned(<<"c", "h", "d">>) =>
          /\ output'.ret = "Broken" => input'.chd.tool = "fails"
          /\ (input'.tempdir /\ input'.chd.tool = "extracts") =>
                output'.ret = verify_cue(db, cuedb, gD \o ExtCue, input'.chd.dir)]_vars


\* A value of a size attribute that is a decimal number: digits, at least
\* one.
IsDecimal(value) ==
    value # <<>> /\ \A i \in DOMAIN value : IndexIn(DecDigits, value[i]) > 0

\* A <rom> element that lacks name, size, crc, md5 or sha1, or has a size
\* that is not decimal or a crc, md5 or sha1 of the wrong length.
MalformedRom(node) ==
    \/ node.name = {} \/ node.size = {} \/ node.crc = {} \/ node.md5 = {} \/ node.sha1 = {}
    \/ \E v \in node.size : ~IsDecimal(v)
    \/ \E v \in node.crc : Len(v) # 8
    \/ \E v \in node.md5 : Len(v) # 32
    \/ \E v \in node.sha1 : Len(v) # 40

\* A document with a <game> element that lacks its name or has such a <rom>
\* element.
Malformed(document) ==
    \E i \in DOMAIN document :
        \/ document[i].name = {}
        \/ \E j \in DOMAIN document[i].roms : MalformedRom(document[i].roms[j])

\* C27: the import of a document with a <game> without name, or a <rom>
\* without name, size, crc, md5 or sha1, with a size that is not decimal or a
\* hex attribute of the wrong length, fails with a parse error; no row was
\* written before it fails and the store is as it was when the import began,
\* also when earlier games of the document are valid.
C27_MalformedFailsBeforeWrites ==
    [][(pc = "begin" /\ input.fn = "import_datafile_games" /\ Malformed(input.document)) =>
          /\ conn = pre /\ db = pre
          /\ pc' = "idle" /\ result' = "ParseError"
          /\ conn' = pre /\ db' = pre]_vars

\* An import failed with a parse error on a document whose first game is
\* valid and whose second is not, into a store that held games.
C27_ValidThenMalformed ==
    /\ pc = "idle" /\ result = "ParseError"
    /\ input.fn = "import_datafile_games"
    /\ Len(input.document) = 2
    /\ parse_game(input.document[1]) # {}
    /\ Malformed(input.document)
    /\ db.games # {}


\* The games of the imported datafile that were stored when the import
\* began.
StoredBefore == {g \in pre.games : g.dfid = datafile.dfid}

\* C28: after a successful import, added is the number of parsed games whose
\* name was not stored before, removed the number of stored games whose name
\* is not in the parsed datafile, and added + changed + unchanged the number
\* of parsed games.
C28_CountersAddUp ==
    (pc = "idle" /\ result = "Ok" /\ caller = "harness") =>
        /\ new_entries =
              Cardinality({i \in DOMAIN xml : xml[i].name \notin {g.name : g \in StoredBefore}})
        /\ removed_games = Cardinality({g \in StoredBefore : g.name \notin Names(xml)})
        /\ new_entries + changed_entries + unchanged_entries = Len(xml)

\* A successful import that added a game, changed one and removed one.
C28_AddedChangedRemoved ==
    /\ pc = "idle" /\ result = "Ok" /\ caller = "harness"
    /\ new_entries = 1 /\ changed_entries = 1 /\ removed_games = 1


\* C29: Datafile::get returns after at most one call of itself; the first
\* call for a name creates exactly one datafiles row, with version "" and
\* last_updated 0, and returns it; a later call for the name returns the row
\* that is there, of the same dfid, and creates none.
C29_GetCreatesOneRow ==
    [][Returned("Datafile::get") =>
          LET before == {d \in db.datafiles : d.name = input'.name}
              after == {d \in db'.datafiles : d.name = input'.name}
          IN  /\ output'.calls <= 2
              /\ Cardinality(after) = 1
              /\ before = {} =>
                    /\ db'.datafiles = db.datafiles \cup {output'.ret}
                    /\ output'.ret.dfid \notin {d.dfid : d \in db.datafiles}
                    /\ output'.ret.name = input'.name
                    /\ output'.ret.version = ""
                    /\ output'.ret.last_updated = 0
              /\ before # {} =>
                    /\ output'.calls = 1
                    /\ db' = db
                    /\ output'.ret \in before]_vars

\* Datafile::get created the row of a name, with one call of itself, in a
\* store that held the row of another name.
C29_CreatedAfterAnother ==
    /\ output.fn = "Datafile::get"
    /\ output.calls = 2
    /\ output.ret \in db.datafiles
    /\ Cardinality(db.datafiles) = 2


\* The four bits of a hex digit, the most significant first.
BitsOfDigit(ch) ==
    LET v == HexVal(ch)
    IN  <<(v \div 8) % 2, (v \div 4) % 2, (v \div 2) % 2, v % 2>>

\* The 32 bits that eight hex digits denote.
RECURSIVE BitsOfHex(_)
BitsOfHex(digits) ==
    IF digits = <<>> THEN <<>> ELSE BitsOfDigit(Head(digits)) \o BitsOfHex(Tail(digits))

\* The 32 bits of an i32 in two's complement.
BitsOfI32(v) ==
    LET low == IF v < 0 THEN v + 2147483647 + 1 ELSE v
    IN  <<IF v < 0 THEN 1 ELSE 0>> \o [i \in 1..31 |-> (low \div 2^(31 - i)) % 2]

\* C30: the crc read back from the store has the 32 bits of the crc
\* attribute, the high bit set or not, and it is the crc that was parsed;
\* the crc32 of two ROMs is equal exactly when their attributes denote the
\* same 32 bits.
C30_CrcBitsKept ==
    output.fn = "crc" =>
        /\ BitsOfI32(output.loaded[1]) = BitsOfHex(input.first)
        /\ BitsOfI32(output.loaded[2]) = BitsOfHex(input.second)
        /\ output.loaded = output.parsed
        /\ (output.loaded[1] = output.loaded[2]) <=>
              (BitsOfHex(input.first) = BitsOfHex(input.second))

\* A crc with the high bit set was read back, with one of the same bits
\* written in the other case.
C30_HighBitBothCases ==
    /\ output.fn = "crc"
    /\ input.first = <<"D", "E", "A", "D", "B", "E", "E", "F">>
    /\ input.second = <<"d", "e", "a", "d", "b", "e", "e", "f">>
    /\ output.loaded[1] < 0
    /\ output.loaded[1] = output.loaded[2]


\* The eleven category names of a datafile.
KnownCategoryNames ==
    {"Games", "Demos", "Coverdiscs", "Applications", "Preproduction", "Educational",
     "Bonus Discs", "Multimedia", "Add-Ons", "Audio", "Video"}

\* C31: a category string outside the eleven known names parses to Unknown;
\* each of the twelve values, written to the store and read back, is the
\* same value, Unknown being written as 127; an integer that no Category
\* writes is rejected on read.
C31_CategoryColumn ==
    /\ (output.fn = "Category::from" /\ input.value \notin KnownCategoryNames) =>
          output.ret = "Unknown"
    /\ output.fn = "Category::to_sql" =>
          /\ output.ret = input.value
          /\ input.value = "Unknown" => output.written = 127
    /\ (output.fn = "Category::column_result"
          /\ input.value \notin {CategoryToSql(c) : c \in Category}) =>
          output.ret = "OutOfRange"

\* An integer between those of Video and Unknown was read and rejected.
C31_GapRejected ==
    /\ output.fn = "Category::column_result"
    /\ input.value = 11
    /\ output.ret = "OutOfRange"


\* C32: in every import a stored game's revision goes up, by exactly one, if
\* and only if the set of content tuples of its stored ROMs differs from the
\* set of content tuples of its parsed ROMs, and is otherwise unchanged.
C32_BumpIffTuplesDiffer ==
    ImportOk =>
        \A i \in DOMAIN xml, g \in GamesOf(pre, datafile.dfid),
           h \in GamesOf(db, datafile.dfid) :
            (g.name = xml[i].name /\ h.name = g.name) =>
                LET differ == StoredTuples(pre, g.gid) # TuplesOf(xml[i].roms)
                IN  h.revision = IF differ THEN g.revision + 1 ELSE g.revision


\* The games stored before the import whose revision is one higher after it.
BumpedGames ==
    {g \in GamesOf(pre, datafile.dfid) :
        \E h \in GamesOf(db, datafile.dfid) :
            h.gid = g.gid /\ h.revision = g.revision + 1}

\* C33: after a successful import the changed counter is the number of stored
\* games whose revision the import bumped, and a game that is stored before
\* and after the import has other ROM rows only if its revision was bumped.
C33_ChangedCountsBumps ==
    ImportOk =>
        /\ changed_entries = Cardinality(BumpedGames)
        /\ \A g \in GamesOf(pre, datafile.dfid) :
              (/\ \E h \in GamesOf(db, datafile.dfid) : h.gid = g.gid
               /\ SelectByGid(db.roms, g.gid) # SelectByGid(pre.roms, g.gid))
              => g \in BumpedGames


\* The Redump datafile of every Redump console of the full update is stored
\* with the version of the downloaded header.
RedumpAllImported ==
    \A i \in DOMAIN BatchRedumpOnly :
        \E d \in db.datafiles :
            /\ d.author = "Redump"
            /\ d.name = redump_datafile_name(BatchRedumpOnly[i][2])
            /\ d.version = "1"

\* C34: when full updates are repeated and every Redump download and import
\* succeeds, every Redump datafile is eventually imported, whatever fails on
\* the No-Intro side and however often.
C34_RedumpEventuallyImported == <>RedumpAllImported


\* The running (or last) full update was called after one that loaded the
\* No-Intro index and returned Ok, before the minimum update delay had passed
\* since that one was called.
SecondWithinDelay ==
    /\ FullUpdate
    /\ \E last \in trace[1][4] :
          last.index /\ trace[1][2] < last.at + MinUpdateDelay

\* C35: a full update called after a successful one, before the minimum
\* update delay has passed, makes no network request: it neither fetches the
\* No-Intro index nor downloads a datafile.
C35_SecondUpdateOffline ==
    SecondWithinDelay =>
        \A i \in DOMAIN trace : trace[i][1] \notin {"index", "download"}


\* A console update returned an error of the download, of the header or of
\* the importer.
ConsoleFailed ==
    /\ pc = "idle"
    /\ caller \in {"redump", "nointro"}
    /\ result \in {"FetchError", "ParseError", "DuplicateGame", "StorageError"}

\* The datafiles rows of the record the last console update was called for.
RowsCalled(c) ==
    {d \in c.datafiles :
        /\ d.name = start.name
        /\ d.author = (IF caller = "redump" THEN "Redump" ELSE "No-Intro")}

\* C36: after a console update that failed in the download, the header or the
\* importer, the datafile has one row, which is the one stored before the
\* call, or a new one with version "" and last_updated 0 when there was none;
\* the row is not fresh, so the next update of the console downloads again;
\* every other row of the store is as before the call.
C36_FailedUpdateKeepsRow ==
    ConsoleFailed =>
        /\ Cardinality(RowsCalled(db)) = 1
        /\ IF RowsCalled(start.db) = {}
           THEN \A d \in RowsCalled(db) : d.version = ""
           ELSE RowsCalled(db) = RowsCalled(start.db)
        /\ \A d \in RowsCalled(db) :
              /\ RowsCalled(start.db) = {} => d.last_updated = 0
              /\ ~IsFresh(d, MinUpdateDelay)
        /\ db.datafiles \ RowsCalled(db) = start.db.datafiles \ RowsCalled(db)
        /\ GameTables(db) = GameTables(start.db)

\* A failed import of a newer version into a datafile that was imported
\* before.
C36_FailedReimport ==
    /\ ConsoleFailed
    /\ result = "StorageError"
    /\ start.version = "1"
    /\ header_version = "2"
    /\ start.db.games # {}


\* C37: import_cues only adds rows: no step removes or changes a stored (sha1,
\* content) record, and no sha1 is stored twice; a call that fails leaves the
\* table as it was before the call; a call on the directory of the call
\* before it, which returned Ok, leaves the table as that call left it.
C37_CuesOnlyAdded ==
    [][/\ cuedb.cues \subseteq cuedb'.cues
       /\ \A r, q \in cuedb'.cues : r.sha1 = q.sha1 => r = q
       /\ (pc = "cueimport" /\ pc' = "idle" /\ result' # "Ok")
            => (cuedb' = start.cuedb /\ cueconn' = start.cuedb)
       /\ (pc = "cueimport" /\ result' = "Ok" /\ trace[1][3] = {trace[1][2]})
            => cuedb' = start.cuedb]_vars

\* A directory of two cue files was imported twice in a row, into a table
\* that held a row of another import before.
C37_SameSetTwice ==
    /\ pc = "idle"
    /\ result = "Ok"
    /\ trace # <<>>
    /\ trace[1][1] = "import_cues"
    /\ trace[1][3] = {trace[1][2]}
    /\ Cardinality({f \in trace[1][2] : f.is_file}) = 2
    /\ Cardinality(cuedb.cues) = 2
    /\ \E r \in cuedb.cues : r.content # neutralize(Fill(FileLine, gA), gA \o ExtCue).text


\* C38: no import panics with "Attempted to update unloaded game", and every
\* stored game that waits for a matching parsed game, or for its deletion
\* after the loop, is not loaded: its categories and ROMs were never read.
C38_UpdateOnlyLoaded ==
    /\ result # "Panic"
    /\ pc \in ImportPcs =>
          \A n \in DOMAIN stored_games :
              /\ ~stored_games[n].loaded
              /\ stored_games[n].categories = {}
              /\ stored_games[n].roms = {}

\* An import has updated a stored game that has categories and ROMs, and is
\* about to delete another one that has ROMs.
C38_UpdatedOneDeletesOne ==
    /\ pc = "delete"
    /\ changed_entries + unchanged_entries >= 1
    /\ \E n \in DOMAIN stored_games :
          SelectByGid(conn.roms, Unwrap(stored_games[n].gid)) # {}

====
